---------------------------- MODULE Spec2Model ----------------------------
(***************************************************************************)
(* ProMaster -> Cin7 importer: a model of app.py (v51) and potest.py (v32). *)
(*                                                                         *)
(* Text is modelled as a sequence of characters, each character a TLA+     *)
(* string ("A", "-", ...); characters that TLA+ strings cannot hold        *)
(* portably carry a name ("endash", "emdash", "eszett").                    *)
(***************************************************************************)
EXTENDS Integers, Sequences, FiniteSets, TLC

\* ------------------------------------------------------------------------
\* Bounds of the model
\* ------------------------------------------------------------------------
\* longest raw code handed to clean_code
MaxLen == 3
\* most rows of an edited table (df) handed to a push
MaxRows == 2

\* ------------------------------------------------------------------------
\* Values that are not text
\* ------------------------------------------------------------------------
\* Python None and float NaN (pandas' missing value), as one-element
\* sequences so that they compare with text; no alphabet holds their element
None == <<"<None>">>
NaN == <<"<NaN>">>

\* ------------------------------------------------------------------------
\* Text helpers (Python str methods, re.sub)
\* ------------------------------------------------------------------------
Whitespace == {" ", "\t"}

\* str.upper() of one character; upper-casing may lengthen the text
UpperChar(c) ==
  CASE c = "a" -> <<"A">>
    [] c = "b" -> <<"B">>
    [] c = "c" -> <<"C">>
    [] c = "d" -> <<"D">>
    [] c = "e" -> <<"E">>
    [] c = "i" -> <<"I">>
    [] c = "l" -> <<"L">>
    [] c = "m" -> <<"M">>
    [] c = "n" -> <<"N">>
    [] c = "q" -> <<"Q">>
    [] c = "t" -> <<"T">>
    [] c = "x" -> <<"X">>
    [] c = "y" -> <<"Y">>
    [] c = "z" -> <<"Z">>
    [] c = "eszett" -> <<"S", "S">>
    [] OTHER -> <<c>>

RECURSIVE upper(_)
upper(s) == IF s = <<>> THEN <<>> ELSE UpperChar(Head(s)) \o upper(Tail(s))

RECURSIVE lstrip(_)
lstrip(s) == IF s # <<>> /\ Head(s) \in Whitespace THEN lstrip(Tail(s)) ELSE s

RECURSIVE rstrip(_)
rstrip(s) ==
  IF s # <<>> /\ s[Len(s)] \in Whitespace THEN rstrip(SubSeq(s, 1, Len(s) - 1)) ELSE s

strip(s) == rstrip(lstrip(s))

\* s.startswith(pat)
StartsWith(s, pat) == Len(s) >= Len(pat) /\ SubSeq(s, 1, Len(pat)) = pat

\* str.replace(pat, rep): leftmost, non-overlapping occurrences
RECURSIVE replace(_, _, _)
replace(s, pat, rep) ==
  IF s = <<>> THEN <<>>
  ELSE IF StartsWith(s, pat)
       THEN rep \o replace(SubSeq(s, Len(pat) + 1, Len(s)), pat, rep)
       ELSE <<Head(s)>> \o replace(Tail(s), pat, rep)

\* re.sub(r"[^...]", "", s): keep the characters of the class
KeepOnly(s, class) == SelectSeq(s, LAMBDA c : c \in class)

Letters == {"A", "B", "C", "D", "E", "I", "K", "L", "M", "N", "O", "P", "Q",
            "S", "T", "X", "Y", "Z"}
Digits == {"0", "1", "2", "9"}

\* ------------------------------------------------------------------------
\* clean_code
\* ------------------------------------------------------------------------
\* a class that also lets the blank through
AppCodeClassWithBlank == Letters \cup Digits \cup {"/", "\\", "-", " "}
\* app.py: [^A-Z0-9/\\-] in a raw string: the class holds the backslash too
AppCodeClass == Letters \cup Digits \cup {"/", "\\", "-"}

\* potest.py: [^A-Z0-9/\-]: the backslash only escapes the hyphen
PotestCodeClass == Letters \cup Digits \cup {"/", "-"}

\* pd.isna(x)
isna(x) == x \in {None, NaN}

\* a cell that pandas read as a number, written with its digits
Number(digits) == <<"<int>">> \o digits

IsNumber(x) == x # <<>> /\ Head(x) = "<int>"

\* str(x)
str(x) == IF IsNumber(x) THEN Tail(x) ELSE x

CleanCodeWith(x, class) ==
  IF isna(x) THEN <<>>
  ELSE LET u == upper(strip(str(x)))
           d == replace(replace(u, <<"endash">>, <<"-">>), <<"emdash">>, <<"-">>)
       IN KeepOnly(d, class)

\* app.py
clean_code(x) == CleanCodeWith(x, AppCodeClass)
\* potest.py
potest_clean_code(x) == CleanCodeWith(x, PotestCodeClass)

\* ------------------------------------------------------------------------
\* Supplier names and the fuzzy supplier match (app.py)
\* ------------------------------------------------------------------------
SupplierClass == Letters \cup Digits

clean_supplier_name(name) ==
  IF name = <<>> \/ isna(name) THEN <<>>
  ELSE LET u == strip(upper(name))
           a == replace(u, <<"&">>, <<"A", "N", "D">>)
           l == replace(a, <<"L", "I", "M", "I", "T", "E", "D">>, <<"L", "T", "D">>)
       IN KeepOnly(l, SupplierClass)

\* load_all_suppliers.clean_text: the same steps, for the Cin7 company names
clean_text(x) ==
  IF x = <<>> \/ isna(x) THEN <<>>
  ELSE LET u == strip(upper(x))
           a == replace(u, <<"&">>, <<"A", "N", "D">>)
           l == replace(a, <<"L", "I", "M", "I", "T", "E", "D">>, <<"L", "T", "D">>)
       IN KeepOnly(l, SupplierClass)

\* Ids are written as numerals ("11"), so that an id and a missing id compare.
NoId == "None"
NaNId == "NaN"

\* the Contacts of type Supplier that Cin7 returns, in table order
Cin7Suppliers ==
  << [id |-> "11", company |-> <<"A", "c", "m", "e">>,
      jobTitle |-> <<"a", "c", "m", "e">>],
     [id |-> "12", company |-> <<"A", "x", "y">>, jobTitle |-> <<>>],
     [id |-> "13", company |-> <<"A", "c", "m", "e", "2">>, jobTitle |-> <<>>],
     [id |-> "14", company |-> <<"A", "x", "z">>, jobTitle |-> <<>>] >>

\* suppliers_df: id, company, company_clean
suppliers_df ==
  [n \in 1..Len(Cin7Suppliers) |->
     [id |-> Cin7Suppliers[n].id,
      company |-> Cin7Suppliers[n].company,
      company_clean |-> clean_text(Cin7Suppliers[n].company)]]

\* difflib.SequenceMatcher, for texts shorter than the 200 characters at which
\* its popularity heuristic starts. Positions are 0-based, ranges half-open.
RECURSIVE RunLen(_, _, _, _, _, _)
RunLen(a, b, i, j, ahi, bhi) ==
  IF i < ahi /\ j < bhi /\ a[i + 1] = b[j + 1]
  THEN 1 + RunLen(a, b, i + 1, j + 1, ahi, bhi)
  ELSE 0

\* the longest matching block <<i, j, k>>: k maximal, then i minimal, then j
find_longest_match(a, b, alo, ahi, blo, bhi) ==
  LET starts == (alo..(ahi - 1)) \X (blo..(bhi - 1))
      len == [p \in starts |-> RunLen(a, b, p[1], p[2], ahi, bhi)]
      longest == {p \in starts : \A q \in starts : len[q] <= len[p]}
      first == {p \in longest :
                  \A q \in longest : p[1] < q[1] \/ (p[1] = q[1] /\ p[2] <= q[2])}
  IN IF starts = {} THEN <<alo, blo, 0>>
     ELSE LET p == CHOOSE p \in first : TRUE
          IN IF len[p] = 0 THEN <<alo, blo, 0>> ELSE <<p[1], p[2], len[p]>>

\* the total size of get_matching_blocks()
RECURSIVE Matches(_, _, _, _, _, _)
Matches(a, b, alo, ahi, blo, bhi) ==
  LET m == find_longest_match(a, b, alo, ahi, blo, bhi)
      i == m[1]
      j == m[2]
      k == m[3]
  IN IF k = 0 THEN 0
     ELSE k + (IF alo < i /\ blo < j THEN Matches(a, b, alo, i, blo, j) ELSE 0)
            + (IF i + k < ahi /\ j + k < bhi
               THEN Matches(a, b, i + k, ahi, j + k, bhi) ELSE 0)

\* SequenceMatcher(None, a, b).ratio() as the fraction <<numerator, denominator>>
ratio(a, b) ==
  LET length == Len(a) + Len(b)
  IN IF length = 0 THEN <<1, 1>>
     ELSE <<2 * Matches(a, b, 0, Len(a), 0, Len(b)), length>>

\* x > y and x >= y on fractions with positive denominators
ScoreGt(x, y) == x[1] * y[2] > y[1] * x[2]
ScoreGe(x, y) == x[1] * y[2] >= y[1] * x[2]

\* a threshold of 0.25
LowThreshold == <<1, 4>>
\* 0.40
AcceptThreshold == <<2, 5>>

\* the loop with "score >= best_score": the last of several equal scores wins
RECURSIVE BestMatch_LastTie(_, _)
BestMatch_LastTie(cleaned, n) ==
  IF n = 0 THEN [id |-> NoId, score |-> <<0, 1>>, name |-> <<>>]
  ELSE LET best == BestMatch_LastTie(cleaned, n - 1)
           row == suppliers_df[n]
           score == ratio(cleaned, row.company_clean)
       IN IF ScoreGe(score, best.score)
          THEN [id |-> row.id, score |-> score, name |-> row.company]
          ELSE best

\* the loop over suppliers_df.iterrows(): best so far after the first n rows
RECURSIVE BestMatch(_, _)
BestMatch(cleaned, n) ==
  IF n = 0 THEN [id |-> NoId, score |-> <<0, 1>>, name |-> <<>>]
  ELSE LET best == BestMatch(cleaned, n - 1)
           row == suppliers_df[n]
           score == ratio(cleaned, row.company_clean)
       IN IF ScoreGt(score, best.score)
          THEN [id |-> row.id, score |-> score, name |-> row.company]
          ELSE best

\* the truth value Python gives an id
Truthy(id) == id \notin {NoId, "0"}

\* an accepted score
Accepted(score) == ScoreGe(score, AcceptThreshold)

\* [exc |-> "" or the exception, id, abbr]
get_supplier_details(name) ==
  IF name = <<>> \/ isna(name) THEN [exc |-> "", id |-> NoId, abbr |-> <<>>]
  ELSE LET cleaned == clean_supplier_name(name)
           best == BestMatch(cleaned, Len(suppliers_df))
           head == SubSeq(cleaned, 1, IF Len(cleaned) < 4 THEN Len(cleaned) ELSE 4)
       IN IF Truthy(best.id) /\ Accepted(best.score)
          THEN [exc |-> "", id |-> best.id,
                abbr |-> IF head = <<>> THEN <<"S", "U", "P", "P">> ELSE head]
          ELSE [exc |-> "Supplier match failed", id |-> NoId, abbr |-> <<>>]

\* Supplier cells of app.py: blank, an exact name, a name at the threshold
\* (AB against AXY: 0.40), below it (0.29), without any common character,
\* and a second exact name that begins like the first
AppSuppliers ==
  {<<>>, <<"A", "c", "m", "e">>, <<"A", "B">>, <<"A", "Q", "Q", "Q">>, <<"Q", "Z">>,
   <<"A", "c", "m", "e", "2">>}

\* get_supplier_details tabulated over those cells, so that the match is
\* computed once per name and not once per state
SupplierDetails == [name \in AppSuppliers |-> get_supplier_details(name)]

\* ------------------------------------------------------------------------
\* Reference data: Products.csv, the BOMs and the branches
\* ------------------------------------------------------------------------
AB12 == <<"A", "B", "-", "1", "2">>
KIT1 == <<"K", "I", "T", "-", "1">>
ZZZ99 == <<"Z", "Z", "Z", "-", "9", "9">>
P1 == <<"P", "1">>
P2 == <<"P", "2">>

Acme == <<"A", "c", "m", "e">>
Axy == <<"A", "x", "y">>
Unknown == <<"U", "N", "K", "N", "O", "W", "N">>

\* Products.csv as the file holds it; prices are written as numerals
ProductsCsv ==
  { [Code |-> <<"a", "b", "-", "1", "2">>, ProductPrice |-> "10", Supplier |-> Acme],
    [Code |-> KIT1, ProductPrice |-> "25", Supplier |-> Acme],
    [Code |-> P1, ProductPrice |-> "4", Supplier |-> Axy],
    [Code |-> P2, ProductPrice |-> "6", Supplier |-> Axy] }

\* products["Code"] = products["Code"].apply(clean_code)
products_Code == {clean_code(p.Code) : p \in ProductsCsv}
potest_products_Code == {potest_clean_code(p.Code) : p \in ProductsCsv}

\* lookup_product_details(code)[1]: the price of a catalog code
lookup_product_details(code) ==
  (CHOOSE p \in ProductsCsv : clean_code(p.Code) = code).ProductPrice

\* the ProductPrice a left merge on the code attaches: NaN without a match
MergedPrice(code) ==
  IF code \in products_Code THEN lookup_product_details(code) ELSE "NaN"

\* supplier_map of potest.py: products Supplier by code, UNKNOWN without one
supplier_map(code) ==
  IF code \in potest_products_Code
  THEN (CHOOSE p \in ProductsCsv : potest_clean_code(p.Code) = code).Supplier
  ELSE Unknown

\* the BomMasters of Cin7: the components of the first product of a master
Cin7Boms(code) ==
  IF code = KIT1
  THEN << [code |-> P1, quantity |-> 2, unitPrice |-> "4"],
          [code |-> P2, quantity |-> 1, unitPrice |-> "6"] >>
  ELSE <<>>

\* get_bom(code) with Cin7 answering; a code without a master gives []
get_bom(code) == Cin7Boms(code)

branch_Hamilton == "230"
branch_Avondale == "3"
branch_Hamilton_default_member == "230"
branch_Avondale_default_member == "3"

\* ------------------------------------------------------------------------
\* Payload builders of app.py
\* ------------------------------------------------------------------------
\* [exc, val]: int(member_id) of a NaN raises ValueError
resolve_member_id(member_id, branch) ==
  IF member_id \in {NoId, "0"}
  THEN [exc |-> "",
        val |-> IF branch = "Hamilton" THEN branch_Hamilton_default_member
                ELSE branch_Avondale_default_member]
  ELSE IF member_id = NaNId
       THEN [exc |-> "ValueError", val |-> NoId]
       ELSE [exc |-> "", val |-> member_id]

NoPayload == [reference |-> "none"]

\* r.get("Override Code") or r["Item Code"]
RowCode(r) == IF r.override # <<>> THEN r.override ELSE r.item

\* [exc, payload]
build_sales_payload(ref, grp) ==
  LET branch == grp[1].branch
      branch_id == IF branch = "Hamilton" THEN branch_Hamilton ELSE branch_Avondale
      resolved_mem == resolve_member_id(grp[1].member, branch)
      line_items == [n \in 1..Len(grp) |->
                       [code |-> RowCode(grp[n]), qty |-> grp[n].qty,
                        unitPrice |-> grp[n].cost]]
  IN IF resolved_mem.exc # ""
     THEN [exc |-> resolved_mem.exc, payload |-> NoPayload]
     ELSE [exc |-> "",
           payload |-> [reference |-> ref, branchId |-> branch_id,
                        memberId |-> resolved_mem.val, supplierId |-> NoId,
                        lineItems |-> line_items]]

\* a simple line item that takes the price of the first catalog product
RowLineItems_FirstPrice(r) ==
  LET parent_code == RowCode(r)
      bom_components == get_bom(parent_code)
  IN IF bom_components # <<>>
     THEN [c \in 1..Len(bom_components) |->
             [code |-> bom_components[c].code,
              qty |-> bom_components[c].quantity * r.qty,
              unitPrice |-> bom_components[c].unitPrice]]
     ELSE <<[code |-> parent_code, qty |-> r.qty,
             unitPrice |-> lookup_product_details(KIT1)]>>

\* the line items of one row: the BOM's components, or the row itself
LineItemsOf(bom_components, parent_code, qty_ordered, price_parent) ==
  IF bom_components # <<>>
  THEN [c \in 1..Len(bom_components) |->
          [code |-> bom_components[c].code,
           qty |-> bom_components[c].quantity * qty_ordered,
           unitPrice |-> bom_components[c].unitPrice]]
  ELSE <<[code |-> parent_code, qty |-> qty_ordered, unitPrice |-> price_parent]>>

RowLineItems(r) == LineItemsOf(get_bom(RowCode(r)), RowCode(r), r.qty, r.cost)

RECURSIVE ConcatLineItems(_, _)
ConcatLineItems(grp, n) ==
  IF n = 0 THEN <<>> ELSE ConcatLineItems(grp, n - 1) \o RowLineItems(grp[n])

\* [exc, payload]
build_po_payload(ref, grp) ==
  LET sup == SupplierDetails[grp[1].supplier]
      branch == grp[1].branch
      branch_id == IF branch = "Hamilton" THEN branch_Hamilton ELSE branch_Avondale
      invalid == {n \in 1..Len(grp) : RowCode(grp[n]) \notin products_Code}
  IN IF sup.exc # ""
     THEN [exc |-> sup.exc, payload |-> NoPayload]
     ELSE IF invalid # {}
          THEN [exc |-> "Invalid Override Code", payload |-> NoPayload]
          ELSE [exc |-> "",
                payload |-> [reference |-> ref, branchId |-> branch_id,
                             memberId |-> sup.id, supplierId |-> sup.id,
                             lineItems |-> ConcatLineItems(grp, Len(grp))]]

\* ------------------------------------------------------------------------
\* Payload builders of potest.py
\* ------------------------------------------------------------------------
\* [exc, val]: "if member_id" is true of a NaN, and int(NaN) raises ValueError
potest_resolve_member_id(member_id, branch_name) ==
  IF member_id = NaNId THEN [exc |-> "ValueError", val |-> NoId]
  ELSE IF member_id \notin {NoId, "0"} THEN [exc |-> "", val |-> member_id]
  ELSE IF branch_name = "Hamilton"
       THEN [exc |-> "", val |-> branch_Hamilton_default_member]
       ELSE [exc |-> "", val |-> branch_Avondale_default_member]

\* [exc, payload]
build_sales_order_payload(ref, grp) ==
  LET branch == grp[1].branch
      branch_id == IF branch = "Hamilton" THEN branch_Hamilton ELSE branch_Avondale
      mem == potest_resolve_member_id(grp[1].member, branch)
      line_items == [n \in 1..Len(grp) |->
                       [code |-> grp[n].item, qty |-> grp[n].qty,
                        unitPrice |-> grp[n].cost]]
  IN IF mem.exc # ""
     THEN [exc |-> mem.exc, payload |-> NoPayload]
     ELSE [exc |-> "",
           payload |-> [reference |-> ref, branchId |-> branch_id,
                        memberId |-> mem.val, supplierId |-> NoId,
                        lineItems |-> line_items]]

\* ------------------------------------------------------------------------
\* State
\* ------------------------------------------------------------------------
VARIABLES
  nz_prog,   \* which file's clean_code is applied: "app" or "potest"
  nz_x,      \* the raw value handed to clean_code
  nz_once,   \* clean_code(x), None before the call
  nz_twice,  \* clean_code(clean_code(x)), None before the call
  prog,      \* the script that runs: "app" or "potest"
  kind,      \* the orders pushed: "SO" or "PO"
  df,        \* the rows of the table the push is given
  pc,        \* "page", then inside the push "loop", "built", "sent", then
             \* "done" (it returned) or "crashed" (an exception left it)
  groups,    \* what the push loop iterates: <<[ref, rows], ...>>
  gi,        \* the loop's position in groups
  payload,   \* the payload of the group being pushed
  results,   \* the results list
  posts,     \* every request Cin7 was sent: <<[kind, payload], ...>>
  gstate,    \* the state of each group of the push
  sb_prog,   \* the script whose upload loop runs: "app" or "potest"
  sb_subs,   \* the substitution table, as loaded
  sb_file,   \* the PartCode column of the uploaded file, as written
  sb_pm,     \* pm["PartCode"] in the current script run
  sb_hits,   \* the PartCode column of hits, taken before the loop
  sb_i,      \* the loop's position in hits
  sb_keys,   \* the keys of the radios created in the current script run
  sb_swap,   \* the radios the user has set to "Swap" (session state)
  sb_pc,     \* "run", "loop", then "merged" or "crashed"
  call,      \* the function that is called on its own, "" when none is
  arg,       \* the arguments of the call
  ret,       \* what the call returned, None before it returns
  returned,  \* whether the call has returned
  bom_edited, \* whether the BOM of the kit was edited in Cin7 since the start
  bom_gets,  \* per code, the GETs of v2/BomMasters?where=code='<code>'
  bom_log,   \* the explosions of the batch: <<[code, qty, items], ...>>
  sc_run,    \* the number of the current run of app.py's script, 0 when none
  sc_pc,     \* the statement of Script the run is about to execute
  sc_defined, \* the global names the run has bound so far
  sc_files,  \* whether the uploader holds files
  sc_button, \* the button whose press started the run, "" when none
  sc_rendered, \* the buttons the run has put on the page
  sc_groups, \* the number of order groups of the edited table
  sc_results, \* the number of results the push returned, -1 without a push
  sc_end,    \* "running", "finished", "NameError", or "stopped" (st.stop())
  rf_pc,     \* refresh_products_from_api: "get", "to_parquet", "json.dump",
             \* "return", then "returned" or "raised"; "idle" before a call
  rf_call,   \* the number of the call, 0 before the first
  rf_pages,  \* the pages of products Cin7 holds during the call
  rf_all_rows, \* all_rows
  rf_skip,   \* skip, counted in pages of take rows
  rf_before, \* <<cache_file, meta_file>> as they were when the call started
  rf_raised, \* the statement that raised, "" when none did
  cache_file, \* products_cache.parquet: [exists, call, content]
  meta_file, \* products_cache_meta.json: [exists, call, content]
  rf_clock,  \* datetime.now(), in ticks
  rf_loaded  \* the last result of load_cached_products, <<>> before a call

nzVars == <<nz_prog, nz_x, nz_once, nz_twice>>
pushVars == <<prog, kind, df, pc, groups, gi, payload, results, posts, gstate>>
sbVars == <<sb_prog, sb_subs, sb_file, sb_pm, sb_hits, sb_i, sb_keys, sb_swap, sb_pc>>
callVars == <<call, arg, ret, returned>>
bomVars == <<bom_edited, bom_gets, bom_log>>
scVars == <<sc_run, sc_pc, sc_defined, sc_files, sc_button, sc_rendered,
           sc_groups, sc_results, sc_end>>
rfVars == <<rf_pc, rf_call, rf_pages, rf_all_rows, rf_skip, rf_before,
           rf_raised, cache_file, meta_file, rf_clock, rf_loaded>>
extraVars == <<bomVars, scVars, rfVars>>

vars == <<nz_prog, nz_x, nz_once, nz_twice,
          prog, kind, df, pc, groups, gi, payload, results, posts, gstate,
          sb_prog, sb_subs, sb_file, sb_pm, sb_hits, sb_i, sb_keys, sb_swap, sb_pc,
          call, arg, ret, returned,
          bom_edited, bom_gets, bom_log,
          sc_run, sc_pc, sc_defined, sc_files, sc_button, sc_rendered,
          sc_groups, sc_results, sc_end,
          rf_pc, rf_call, rf_pages, rf_all_rows, rf_skip, rf_before,
          rf_raised, cache_file, meta_file, rf_clock, rf_loaded>>

\* no batch of explosions is modelled
BomIdle ==
  /\ bom_edited = FALSE
  /\ bom_gets = <<>>
  /\ bom_log = <<>>

\* no script run is modelled
ScIdle ==
  /\ sc_run = 0
  /\ sc_pc = 0
  /\ sc_defined = {}
  /\ sc_files = FALSE
  /\ sc_button = ""
  /\ sc_rendered = {}
  /\ sc_groups = 0
  /\ sc_results = -1
  /\ sc_end = "finished"

\* no refresh of the product cache is modelled
RfIdle ==
  /\ rf_pc = "off"
  /\ rf_call = 0
  /\ rf_pages = 0
  /\ rf_all_rows = <<>>
  /\ rf_skip = 0
  /\ rf_before = <<>>
  /\ rf_raised = ""
  /\ cache_file = <<>>
  /\ meta_file = <<>>
  /\ rf_clock = 0
  /\ rf_loaded = <<>>

ExtraIdle == BomIdle /\ ScIdle /\ RfIdle

\* no function is called on its own
CallIdle ==
  /\ call = ""
  /\ arg = None
  /\ ret = None
  /\ returned = FALSE

\* no file is uploaded
SbIdle ==
  /\ sb_prog = "app"
  /\ sb_subs = <<>>
  /\ sb_file = <<>>
  /\ sb_pm = <<>>
  /\ sb_hits = <<>>
  /\ sb_i = 0
  /\ sb_keys = {}
  /\ sb_swap = {}
  /\ sb_pc = "off"

\* no push is modelled
PushIdle ==
  /\ prog = "app"
  /\ kind = "SO"
  /\ df = <<>>
  /\ pc = "off"
  /\ groups = <<>>
  /\ gi = 0
  /\ payload = NoPayload
  /\ results = <<>>
  /\ posts = <<>>
  /\ gstate = <<>>

\* ------------------------------------------------------------------------
\* Normalisation of codes (clean_code applied to a raw cell)
\* ------------------------------------------------------------------------
\* the characters a raw cell is drawn from: both cases, digits, whitespace,
\* the separators, the dashes, the backslash and other punctuation
RawChars == {"a", "A", "1", " ", "/", "-", "endash", "emdash", "\\", "!", "eszett"}

RECURSIVE TextsUpTo(_, _)
TextsUpTo(chars, n) ==
  IF n = 0 THEN {<<>>}
  ELSE LET shorter == TextsUpTo(chars, n - 1)
       IN shorter \cup {Append(t, c) : t \in shorter, c \in chars}

RawCells == TextsUpTo(RawChars, MaxLen) \cup {None, NaN, Number(<<"1">>)}

NzClean(x) == IF nz_prog = "app" THEN clean_code(x) ELSE potest_clean_code(x)

NzIdle ==
  /\ nz_prog = "app"
  /\ nz_x = None
  /\ nz_once = None
  /\ nz_twice = None

NzInit ==
  /\ nz_prog \in {"app", "potest"}
  /\ nz_x \in RawCells
  /\ nz_once = None
  /\ nz_twice = None

\* key = clean_code(x)
NzFirst ==
  /\ nz_once = None
  /\ nz_once' = NzClean(nz_x)
  /\ UNCHANGED <<nz_prog, nz_x, nz_twice>>
  /\ UNCHANGED <<pushVars, sbVars, callVars, extraVars>>

\* clean_code(key): the key is cleaned again (so_edit / po_edit re-clean the
\* Override Code that was seeded from the cleaned PartCode)
NzSecond ==
  /\ nz_once # None
  /\ nz_twice = None
  /\ nz_twice' = NzClean(nz_once)
  /\ UNCHANGED <<nz_prog, nz_x, nz_once>>
  /\ UNCHANGED <<pushVars, sbVars, callVars, extraVars>>

NzNext == NzFirst \/ NzSecond

InitNormalize == NzInit /\ PushIdle /\ SbIdle /\ CallIdle /\ ExtraIdle

SpecNormalize == InitNormalize /\ [][NzNext]_vars

\* C10: clean_code is idempotent: cleaning a cleaned key gives the key back,
\* for every raw cell over the full alphabet, in app.py and in potest.py.
C10_CleanCodeIdempotent == nz_twice # None => nz_twice = nz_once

\* a raw cell with stripped characters, a dash and a backslash was cleaned twice
C10_Witness ==
  /\ nz_twice # None
  /\ nz_x = <<"a", "endash", "\\">>
  /\ nz_once # nz_x

\* ------------------------------------------------------------------------
\* Substitutions (the upload loop of one PM7 file)
\* ------------------------------------------------------------------------
\* Substitutes.xlsx as written: two tables, one with a chain A -> B, B -> C
SubstitutesXlsx ==
  {<<[Code |-> <<"a">>, Substitute |-> <<"B", " ">>],
     [Code |-> <<"B">>, Substitute |-> <<"c">>]>>,
   <<[Code |-> <<"A">>, Substitute |-> <<"D">>]>>}

\* the PartCode cells a PM7 file is written with
PartCodes == {<<"A">>, <<"b">>, <<"C">>, <<"E">>}

SbClean(p, x) == IF p = "app" THEN clean_code(x) ELSE potest_clean_code(x)

\* subs["Code"] = subs["Code"].apply(clean_code), and the same for Substitute
LoadSubs(p, xlsx) ==
  [n \in DOMAIN xlsx |-> [Code |-> SbClean(p, xlsx[n].Code),
                          Substitute |-> SbClean(p, xlsx[n].Substitute)]]

\* subs.loc[subs["Code"] == orig, "Substitute"].iloc[0]
Substitute(t, orig) ==
  t[CHOOSE n \in DOMAIN t :
      /\ t[n].Code = orig
      /\ \A m \in 1..(n - 1) : t[m].Code # orig].Substitute

\* pm.loc[pm["PartCode"] == orig, "PartCode"] = sub
Swap(column, orig, sub) ==
  [n \in DOMAIN column |-> IF column[n] = orig THEN sub ELSE column[n]]

\* pm = pd.read_csv(file); pm["PartCode"] = pm["PartCode"].apply(clean_code);
\* hits = pm[pm["PartCode"].isin(subs["Code"].values)]
ReadPm ==
  /\ sb_pc = "run"
  /\ sb_pm' = [n \in DOMAIN sb_file |-> SbClean(sb_prog, sb_file[n])]
  /\ sb_hits' = SelectSeq(sb_pm', LAMBDA c : \E n \in DOMAIN sb_subs : sb_subs[n].Code = c)
  /\ sb_i' = 1
  /\ sb_keys' = {}
  /\ sb_pc' = "loop"
  /\ UNCHANGED <<sb_prog, sb_subs, sb_file, sb_swap>>
  /\ UNCHANGED <<nzVars, pushVars, callVars, extraVars>>

\* one pass of "for _, row in hits.iterrows()": the radio under the key
\* f"{fname}-{orig}" (a key used twice in one run raises DuplicateWidgetID),
\* then the swap over every row that holds orig now
ApplySubstitution ==
  /\ sb_pc = "loop"
  /\ sb_i <= Len(sb_hits)
  /\ LET orig == sb_hits[sb_i]
         sub == Substitute(sb_subs, orig)
     IN IF orig \in sb_keys
        THEN /\ sb_pc' = "crashed"
             /\ UNCHANGED <<sb_pm, sb_i, sb_keys>>
        ELSE /\ sb_keys' = sb_keys \cup {orig}
             /\ sb_pm' = IF orig \in sb_swap THEN Swap(sb_pm, orig, sub) ELSE sb_pm
             /\ sb_i' = sb_i + 1
             /\ sb_pc' = "loop"
  /\ UNCHANGED <<sb_prog, sb_subs, sb_file, sb_hits, sb_swap>>
  /\ UNCHANGED <<nzVars, pushVars, callVars, extraVars>>

\* the loop is over: merged = pd.merge(pm, products, ...)
Merge ==
  /\ sb_pc = "loop"
  /\ sb_i > Len(sb_hits)
  /\ sb_pc' = "merged"
  /\ UNCHANGED <<sb_prog, sb_subs, sb_file, sb_pm, sb_hits, sb_i, sb_keys, sb_swap>>
  /\ UNCHANGED <<nzVars, pushVars, callVars, extraVars>>

\* the user sets a radio of the page to the other option: Streamlit keeps the
\* value under the radio's key and runs the script again from the top
RadioChanged ==
  /\ sb_pc \in {"merged", "crashed"}
  /\ \E k \in sb_keys :
       sb_swap' = IF k \in sb_swap THEN sb_swap \ {k} ELSE sb_swap \cup {k}
  /\ sb_pc' = "run"
  /\ UNCHANGED <<sb_prog, sb_subs, sb_file, sb_pm, sb_hits, sb_i, sb_keys>>
  /\ UNCHANGED <<nzVars, pushVars, callVars, extraVars>>

\* a file is uploaded; every radio is at its first option, "Keep"
SbInit ==
  /\ sb_prog \in {"app", "potest"}
  /\ \E xlsx \in SubstitutesXlsx : sb_subs = LoadSubs(sb_prog, xlsx)
  /\ sb_file \in UNION {[1..n -> PartCodes] : n \in 1..MaxRows}
  /\ sb_pm = <<>>
  /\ sb_hits = <<>>
  /\ sb_i = 0
  /\ sb_keys = {}
  /\ sb_swap = {}
  /\ sb_pc = "run"

SbNext == ReadPm \/ ApplySubstitution \/ Merge \/ RadioChanged

InitSubstitute == SbInit /\ PushIdle /\ NzIdle /\ CallIdle /\ ExtraIdle

SpecSubstitute == InitSubstitute /\ [][SbNext]_vars

\* the table has a rule for the code
HasRule(t, c) == \E n \in DOMAIN t : t[n].Code = c

\* C9: a substitution is applied at most once per line: when the loop is over,
\* every line whose code as read has a rule set to "Swap" holds that rule's
\* substitute, and every other line holds the code it was read with; with
\* A -> B and B -> C both swapped, a line read as A ends as B, never as C.
C9_SwapAtMostOncePerLine ==
  sb_pc = "merged" =>
    \A n \in DOMAIN sb_pm :
      LET read == SbClean(sb_prog, sb_file[n])
      IN sb_pm[n] = IF HasRule(sb_subs, read) /\ read \in sb_swap
                    THEN Substitute(sb_subs, read) ELSE read

\* ------------------------------------------------------------------------
\* The tables a push is given
\* ------------------------------------------------------------------------
\* the order references of two uploaded files (numbers of equal length, whose
\* order as text is their order as numbers)
Bases == {1, 2}
Branches == {"Avondale", "Hamilton"}
\* MemberId: None (no contact), NaN (pandas' missing value), 0, a contact id
Members == {NoId, NaNId, "0", "7"}
Qtys == {3}
\* <<Branch, MemberId>>: every member beside the primary branch; beside
\* Hamilton a missing member and a contact id
Headers ==
  {<<"Avondale", m>> : m \in Members} \cup {<<"Hamilton", NoId>>, <<"Hamilton", "7">>}
\* <<Item Code, Override Code as the operator left it>>: untouched, a code
\* that is not in the catalog, that code corrected by hand, and a blanked cell
AppCodes == {<<AB12, AB12>>, <<ZZZ99, ZZZ99>>,
             <<ZZZ99, <<"a", "b", "-", "1", "2">>>>, <<KIT1, <<>>>>}
PotestCodes == {AB12, KIT1, P1, ZZZ99}

Row(b, br, m, s, i, o, q, c) ==
  [base |-> b, branch |-> br, member |-> m, supplier |-> s, item |-> i,
   override |-> o, qty |-> q, cost |-> c]

\* The rows of a table vary one part at a time: the header cells over all
\* their values beside a catalog line, in both orders, and the line beside a
\* resolved header, in the first order;
\* app.py's tables also hold a line without a quantity (Item Qty 0).

\* so_edit before the override pass
AppSoRows ==
  {Row(b, h[1], h[2], <<>>, AB12, AB12, q, MergedPrice(AB12)) :
     b \in Bases, h \in Headers, q \in Qtys}
  \cup
  {Row(1, "Avondale", "7", <<>>, cp[1], cp[2], q, MergedPrice(cp[1])) :
     cp \in AppCodes, q \in Qtys}
  \cup
  {Row(1, "Avondale", "7", <<>>, AB12, AB12, 0, MergedPrice(AB12))}

\* final_po before the override pass; Branch is "Avondale" in every buffer row
AppPoRows ==
  {Row(b, "Avondale", NoId, s, AB12, AB12, q, MergedPrice(AB12)) :
     b \in Bases, s \in AppSuppliers, q \in Qtys}
  \cup
  {Row(1, "Avondale", NoId, Acme, cp[1], cp[2], q, MergedPrice(cp[1])) :
     cp \in AppCodes, q \in Qtys}
  \cup
  {Row(1, "Avondale", NoId, Acme, AB12, AB12, 0, MergedPrice(AB12))}

\* final_output_SO of potest.py
PotestSoRows ==
  {Row(b, h[1], h[2], <<>>, AB12, AB12, q, MergedPrice(AB12)) :
     b \in Bases, h \in Headers, q \in Qtys}
  \cup
  {Row(1, "Avondale", "7", <<>>, i, i, q, MergedPrice(i)) :
     i \in PotestCodes, q \in Qtys}

\* final_output_SO as purchase_orders_ui reads it from the session state
PotestPoRows ==
  {Row(b, br, NoId, supplier_map(AB12), AB12, AB12, q, MergedPrice(AB12)) :
     b \in Bases, br \in Branches, q \in Qtys}
  \cup
  {Row(1, "Avondale", NoId, supplier_map(i), i, i, q, MergedPrice(i)) :
     i \in PotestCodes, q \in Qtys}

Tables(rows) == UNION {[1..n -> rows] : n \in 1..MaxRows}

\* a MemberId column holds None only when no row has a number: pandas turns
\* the None beside a number into NaN
MemberColumn(t) ==
  \/ \A n \in DOMAIN t : t[n].member = NoId
  \/ \A n \in DOMAIN t : t[n].member # NoId

\* ------------------------------------------------------------------------
\* Order references and groupby
\* ------------------------------------------------------------------------
\* a reference is prefix + the order references joined by "-" + tail
Ref(prefix, bases, tail) == [prefix |-> prefix, bases |-> bases, tail |-> tail]

\* PO_OrderRef = "PO-" + order_ref_base + clean_supplier_name(supplier)[:4]
PO_ref(base, supplier) ==
  LET cleaned == clean_supplier_name(supplier)
      abbr == SubSeq(cleaned, 1, IF Len(cleaned) < 4 THEN Len(cleaned) ELSE 4)
  IN Ref("PO-", <<base>>, abbr)

SO_ref(base) == Ref("", <<base>>, <<>>)

\* the Order Ref column of a row
OrderRef(k, r) == IF k = "SO" THEN SO_ref(r.base) ELSE PO_ref(r.base, r.supplier)

\* the characters of a reference tail in code point order
CodePoints ==
  <<"0", "1", "2", "9", "A", "B", "C", "D", "E", "I", "K", "L", "M", "N", "O",
    "P", "Q", "S", "T", "X", "Y", "Z">>
CodePoint(c) == CHOOSE n \in 1..Len(CodePoints) : CodePoints[n] = c

RECURSIVE TextLe(_, _)
TextLe(a, b) ==
  IF a = <<>> THEN TRUE
  ELSE IF b = <<>> THEN FALSE
  ELSE IF Head(a) = Head(b) THEN TextLe(Tail(a), Tail(b))
  ELSE CodePoint(Head(a)) < CodePoint(Head(b))

\* the order of two references of one table (one prefix, one order reference)
RefLe(x, y) ==
  \/ x.bases[1] < y.bases[1]
  \/ x.bases[1] = y.bases[1] /\ TextLe(x.tail, y.tail)

RECURSIVE SortRefs(_)
SortRefs(S) ==
  IF S = {} THEN <<>>
  ELSE LET least == CHOOSE x \in S : \A y \in S : RefLe(x, y)
       IN <<least>> \o SortRefs(S \ {least})

\* df.groupby("Order Ref"): the groups in key order, rows in table order
groupby(t, k) ==
  LET refs == SortRefs({OrderRef(k, t[n]) : n \in DOMAIN t})
  IN [g \in 1..Len(refs) |->
        [ref |-> refs[g],
         rows |-> SelectSeq(t, LAMBDA r : OrderRef(k, r) = refs[g])]]

\* ------------------------------------------------------------------------
\* The push loops
\* ------------------------------------------------------------------------
\* what a POST comes back with: a status code, or an exception of requests
Statuses == {"200", "201", "500"}
Outcomes == Statuses \cup {"exception"}

\* {"Order Ref", "Success": r.status_code == 200, "Response": r.text}
Answered(ref, status) ==
  [ref |-> ref, Success |-> (status = "200"), Response |-> status, Error |-> ""]

\* {"Order Ref", "Success": False, "Error": str(e)}
Excepted(ref, e) == [ref |-> ref, Success |-> FALSE, Response |-> "", Error |-> e]

AllPending(gs) == [r \in {gs[n].ref : n \in DOMAIN gs} |-> "Pending"]

\* the override pass over one row of the edited table: clean the Override
\* Code and, when the catalog has it, look its cost up again
Relookup(r) ==
  LET override_clean == clean_code(r.override)
  IN [r EXCEPT !.override = override_clean,
               !.cost = IF override_clean \in products_Code
                        THEN lookup_product_details(override_clean) ELSE @]

\* a script run of app.py with a push button pressed, up to the call
AppPressed(k) ==
  /\ prog = "app"
  /\ kind = k
  /\ pc = "page"
  /\ df' = [n \in DOMAIN df |-> Relookup(df[n])]
  /\ groups' = groupby(df', k)
  /\ gstate' = AllPending(groups')
  /\ gi' = 1
  /\ pc' = "loop"
  /\ results' = <<>>
  /\ UNCHANGED <<prog, kind, payload, posts>>
  /\ UNCHANGED <<nzVars, sbVars, callVars, extraVars>>

\* "Push Sales Orders": result = push_sales_orders(so_edit)
PushSalesOrdersPressed == AppPressed("SO")

\* "Push Purchase Orders": result = push_purchase_orders(final_po)
PushPurchaseOrdersPressed == AppPressed("PO")

\* the build moved out of the try: its exception ends the loop
BuildCaught_Aborting(b) ==
  /\ pc = "loop"
  /\ gi <= Len(groups)
  /\ LET built == b
     IN IF built.exc # ""
        THEN /\ pc' = "crashed"
             /\ UNCHANGED <<payload, gstate>>
        ELSE /\ payload' = built.payload
             /\ gstate' = [gstate EXCEPT ![groups[gi].ref] = "Built"]
             /\ pc' = "built"
  /\ UNCHANGED <<prog, kind, df, groups, gi, results, posts>>
  /\ UNCHANGED <<nzVars, sbVars, callVars, extraVars>>

\* payload = build(ref, grp) inside the try: an exception becomes the
\* group's result and the loop goes on
BuildCaught(b) ==
  /\ pc = "loop"
  /\ gi <= Len(groups)
  /\ LET built == b
     IN IF built.exc # ""
        THEN /\ results' = Append(results, Excepted(groups[gi].ref, built.exc))
             /\ gstate' = [gstate EXCEPT ![groups[gi].ref] = "BuildFailed"]
             /\ gi' = gi + 1
             /\ UNCHANGED <<pc, payload>>
        ELSE /\ payload' = built.payload
             /\ gstate' = [gstate EXCEPT ![groups[gi].ref] = "Built"]
             /\ pc' = "built"
             /\ UNCHANGED <<results, gi>>
  /\ UNCHANGED <<prog, kind, df, groups, posts>>
  /\ UNCHANGED <<nzVars, sbVars, callVars, extraVars>>

\* payload = build(ref, grp) outside any try: an exception leaves the loop
BuildUncaught(b) ==
  /\ pc = "loop"
  /\ gi <= Len(groups)
  /\ LET built == b
     IN IF built.exc # ""
        THEN /\ pc' = "crashed"
             /\ UNCHANGED <<payload, gstate>>
        ELSE /\ payload' = built.payload
             /\ gstate' = [gstate EXCEPT ![groups[gi].ref] = "Built"]
             /\ pc' = "built"
  /\ UNCHANGED <<prog, kind, df, groups, gi, results, posts>>
  /\ UNCHANGED <<nzVars, sbVars, callVars, extraVars>>

\* a request sent a second time when none was sent under this reference
\* with success
Post_Resending ==
  /\ pc \in {"built", "sent"}
  /\ posts' = Append(posts, [kind |-> kind, payload |-> payload])
  /\ gstate' = [gstate EXCEPT ![groups[gi].ref] = "Sent"]
  /\ pc' = "sent"
  /\ UNCHANGED <<prog, kind, df, groups, gi, payload, results>>
  /\ UNCHANGED <<nzVars, sbVars, callVars, extraVars>>

\* requests.post(url, data=json.dumps(payload)): the request goes out
Post ==
  /\ pc = "built"
  /\ posts' = Append(posts, [kind |-> kind, payload |-> payload])
  /\ gstate' = [gstate EXCEPT ![groups[gi].ref] = "Sent"]
  /\ pc' = "sent"
  /\ UNCHANGED <<prog, kind, df, groups, gi, payload, results>>
  /\ UNCHANGED <<nzVars, sbVars, callVars, extraVars>>

\* an except branch that only passes: the exception leaves no result
ResponseCaught_Silent ==
  /\ pc = "sent"
  /\ \E o \in Outcomes :
       IF o = "exception"
       THEN UNCHANGED <<results, gstate>>
       ELSE /\ results' = Append(results, Answered(groups[gi].ref, o))
            /\ gstate' = [gstate EXCEPT
                            ![groups[gi].ref] = IF o = "200" THEN "Succeeded" ELSE "Failed"]
  /\ gi' = gi + 1
  /\ pc' = "loop"
  /\ UNCHANGED <<prog, kind, df, groups, payload, posts>>
  /\ UNCHANGED <<nzVars, sbVars, callVars, extraVars>>

\* the request returns or raises inside the try: either way one result
ResponseCaught ==
  /\ pc = "sent"
  /\ \E o \in Outcomes :
       LET r == IF o = "exception" THEN Excepted(groups[gi].ref, "RequestException")
                ELSE Answered(groups[gi].ref, o)
       IN /\ results' = Append(results, r)
          /\ gstate' = [gstate EXCEPT
                          ![groups[gi].ref] = IF r.Success THEN "Succeeded" ELSE "Failed"]
  /\ gi' = gi + 1
  /\ pc' = "loop"
  /\ UNCHANGED <<prog, kind, df, groups, payload, posts>>
  /\ UNCHANGED <<nzVars, sbVars, callVars, extraVars>>

\* the request returns or raises outside any try: an exception leaves the loop
ResponseUncaught ==
  /\ pc = "sent"
  /\ \E o \in Outcomes :
       IF o = "exception"
       THEN /\ pc' = "crashed"
            /\ UNCHANGED <<results, gstate, gi>>
       ELSE /\ results' = Append(results, Answered(groups[gi].ref, o))
            /\ gstate' = [gstate EXCEPT
                            ![groups[gi].ref] = IF o = "200" THEN "Succeeded" ELSE "Failed"]
            /\ gi' = gi + 1
            /\ pc' = "loop"
  /\ UNCHANGED <<prog, kind, df, groups, payload, posts>>
  /\ UNCHANGED <<nzVars, sbVars, callVars, extraVars>>

\* the loop is exhausted
Return ==
  /\ pc = "loop"
  /\ gi > Len(groups)
  /\ pc' = "done"
  /\ UNCHANGED <<prog, kind, df, groups, gi, payload, results, posts, gstate>>
  /\ UNCHANGED <<nzVars, sbVars, callVars, extraVars>>

\* ---- app.py: push_sales_orders(df)
push_sales_orders_build ==
  /\ prog = "app" /\ kind = "SO"
  /\ BuildCaught(build_sales_payload(groups[gi].ref, groups[gi].rows))

push_sales_orders_post == prog = "app" /\ kind = "SO" /\ Post

push_sales_orders_response == prog = "app" /\ kind = "SO" /\ ResponseCaught

push_sales_orders_return == prog = "app" /\ kind = "SO" /\ Return

\* ---- app.py: push_purchase_orders(df)
push_purchase_orders_build ==
  /\ prog = "app" /\ kind = "PO"
  /\ BuildCaught(build_po_payload(groups[gi].ref, groups[gi].rows))

push_purchase_orders_post == prog = "app" /\ kind = "PO" /\ Post

push_purchase_orders_response == prog = "app" /\ kind = "PO" /\ ResponseCaught

push_purchase_orders_return == prog = "app" /\ kind = "PO" /\ Return

\* ---- potest.py: push_sales_orders_to_cin7(df)
\* "Create Sales Orders in Cin7": results, payloads = push_sales_orders_to_cin7(df)
CreateSalesOrdersPressed ==
  /\ prog = "potest"
  /\ kind = "SO"
  /\ pc = "page"
  /\ groups' = groupby(df, "SO")
  /\ gstate' = AllPending(groups')
  /\ gi' = 1
  /\ pc' = "loop"
  /\ results' = <<>>
  /\ UNCHANGED <<prog, kind, df, payload, posts>>
  /\ UNCHANGED <<nzVars, sbVars, callVars, extraVars>>

\* payload = build_sales_order_payload(ref, grp), before the try
push_sales_orders_to_cin7_build ==
  /\ prog = "potest" /\ kind = "SO"
  /\ BuildUncaught(build_sales_order_payload(groups[gi].ref, groups[gi].rows))

push_sales_orders_to_cin7_post == prog = "potest" /\ kind = "SO" /\ Post

push_sales_orders_to_cin7_response == prog = "potest" /\ kind = "SO" /\ ResponseCaught

push_sales_orders_to_cin7_return == prog = "potest" /\ kind = "SO" /\ Return

\* ---- potest.py: purchase_orders_ui
\* Series.unique(): the values in order of first appearance
RECURSIVE unique(_)
unique(seq) ==
  IF seq = <<>> THEN <<>>
  ELSE LET before == unique(SubSeq(seq, 1, Len(seq) - 1))
           last == seq[Len(seq)]
       IN IF \E n \in DOMAIN before : before[n] = last THEN before
          ELSE Append(before, last)

\* GET v1/Contacts?where=company='<name>' with Cin7 answering
Cin7ContactsOf(company_name) ==
  SelectSeq(Cin7Suppliers, LAMBDA c : c.company = company_name)

\* the jobTitle of the supplier's contact, "" without one
get_supplier_identifier(company_name) ==
  LET data == Cin7ContactsOf(company_name)
  IN IF data # <<>> THEN upper(strip(data[1].jobTitle)) ELSE <<>>

\* supplier_ids[supplier]: the contact's id, None without a contact
supplier_ids(supplier) ==
  LET data == Cin7ContactsOf(supplier)
  IN IF data # <<>> THEN data[1].id ELSE NoId

\* GET v1/ProductBoms?where=productCode='<code>' with Cin7 answering: the
\* components of the first record, each a componentCode and a qty
Cin7ProductBoms(code) ==
  IF code = KIT1
  THEN << [componentCode |-> P1, qty |-> 2], [componentCode |-> P2, qty |-> 1] >>
  ELSE <<>>

get_bom_for_product(code) == Cin7ProductBoms(code)

\* the product itself without a BOM, else its components times qty
expand_product_with_bom(code, qty) ==
  LET bom == get_bom_for_product(code)
  IN IF bom = <<>>
     THEN <<[ItemCode |-> code, Qty |-> qty]>>
     ELSE [c \in DOMAIN bom |->
             [ItemCode |-> bom[c].componentCode, Qty |-> qty * bom[c].qty]]

\* the rows one line of final_output_SO gives expanded_df: item is the
\* expanded Item Code, override the Original Code, cost the line's Product
\* Cost, supplier the catalog's supplier of the expanded code
ExpandedRows(row) ==
  LET expanded == expand_product_with_bom(row.item, row.qty)
  IN [e \in DOMAIN expanded |->
        Row(row.base, row.branch, NoId, supplier_map(expanded[e].ItemCode),
            expanded[e].ItemCode, row.item, expanded[e].Qty, row.cost)]

RECURSIVE expanded_df(_, _)
expanded_df(t, n) ==
  IF n = 0 THEN <<>> ELSE expanded_df(t, n - 1) \o ExpandedRows(t[n])

\* expanded_df[expanded_df["AddToPO"] == True] for the rows the user added
selected_lines(expanded, added) ==
  LET F[n \in 0..Len(expanded)] ==
        IF n = 0 THEN <<>>
        ELSE IF n \in added THEN Append(F[n - 1], expanded[n]) ELSE F[n - 1]
  IN F[Len(expanded)]

\* the (supplier, branch) pairs in the order the nested loops visit them
RECURSIVE SupplierBranches(_, _, _)
SupplierBranches(sel, sups, n) ==
  IF n = 0 THEN <<>>
  ELSE LET sup_df == SelectSeq(sel, LAMBDA r : r.supplier = sups[n])
           branches == unique([m \in DOMAIN sup_df |-> sup_df[m].branch])
       IN SupplierBranches(sel, sups, n - 1)
            \o [b \in DOMAIN branches |-> <<sups[n], branches[b]>>]

\* the entry po_payloads[po_ref] of one (supplier, branch)
PoEntry(sel, supplier, branch) ==
  LET grp == SelectSeq(sel, LAMBDA r : r.supplier = supplier /\ r.branch = branch)
      order_refs == unique([m \in DOMAIN grp |-> grp[m].base])
      ident == upper(get_supplier_identifier(supplier))
      po_ref == Ref("PO-", order_refs, <<"-">> \o ident)
      lines == [m \in DOMAIN grp |->
                  [code |-> grp[m].item, qty |-> grp[m].qty, unitPrice |-> grp[m].cost]]
  IN [ref |-> po_ref,
      rows |-> grp,
      data |-> [supplier |-> supplier, supplierId |-> supplier_ids(supplier),
                branch |-> branch,
                branchId |-> IF branch = "Hamilton" THEN branch_Hamilton
                             ELSE branch_Avondale,
                reference |-> po_ref, lineItems |-> lines]]

\* d[key] = value on a dict kept as a sequence in insertion order
DictPut(d, e) ==
  IF \E n \in DOMAIN d : d[n].ref = e.ref
  THEN [n \in DOMAIN d |-> IF d[n].ref = e.ref THEN e ELSE d[n]]
  ELSE Append(d, e)

RECURSIVE PoPayloads(_, _, _)
PoPayloads(sel, pairs, n) ==
  IF n = 0 THEN <<>>
  ELSE DictPut(PoPayloads(sel, pairs, n - 1), PoEntry(sel, pairs[n][1], pairs[n][2]))

\* po_payloads of the selected lines
po_payloads(sel) ==
  LET sups == unique([m \in DOMAIN sel |-> sel[m].supplier])
      pairs == SupplierBranches(sel, sups, Len(sups))
  IN PoPayloads(sel, pairs, Len(pairs))

\* a script run with "Create Purchase Orders" pressed, up to the loop: the
\* lines are expanded, the user has added some of them ("No items selected"
\* returns before the button)
CreatePurchaseOrdersPressed ==
  /\ prog = "potest"
  /\ kind = "PO"
  /\ pc = "page"
  /\ \E added \in SUBSET (1..Len(expanded_df(df, Len(df)))) :
       /\ added # {}
       /\ groups' = po_payloads(selected_lines(expanded_df(df, Len(df)), added))
  /\ gstate' = AllPending(groups')
  /\ gi' = 1
  /\ pc' = "loop"
  /\ results' = <<>>
  /\ UNCHANGED <<prog, kind, df, payload, posts>>
  /\ UNCHANGED <<nzVars, sbVars, callVars, extraVars>>

\* payload = [{supplierId, branchId, reference, isApproved, lineItems}]
purchase_orders_ui_build ==
  /\ prog = "potest" /\ kind = "PO"
  /\ BuildUncaught([exc |-> "",
                    payload |-> [reference |-> groups[gi].data.reference,
                                 branchId |-> groups[gi].data.branchId,
                                 memberId |-> NoId,
                                 supplierId |-> groups[gi].data.supplierId,
                                 lineItems |-> groups[gi].data.lineItems]])

purchase_orders_ui_post == prog = "potest" /\ kind = "PO" /\ Post

\* r = requests.post(...) stands in no try
purchase_orders_ui_response == prog = "potest" /\ kind = "PO" /\ ResponseUncaught

\* st.json(results)
purchase_orders_ui_done == prog = "potest" /\ kind = "PO" /\ Return

\* ------------------------------------------------------------------------
\* The specification of the pushes
\* ------------------------------------------------------------------------
TablesOf(p, k) ==
  IF p = "app"
  THEN (IF k = "SO" THEN Tables(AppSoRows) ELSE Tables(AppPoRows))
  ELSE (IF k = "SO" THEN Tables(PotestSoRows) ELSE Tables(PotestPoRows))

PushInit ==
  /\ prog \in {"app", "potest"}
  /\ kind \in {"SO", "PO"}
  /\ df \in {t \in TablesOf(prog, kind) : MemberColumn(t)}
  /\ pc = "page"
  /\ groups = <<>>
  /\ gi = 0
  /\ payload = NoPayload
  /\ results = <<>>
  /\ posts = <<>>
  /\ gstate = <<>>

Init == PushInit /\ NzIdle /\ SbIdle /\ CallIdle /\ ExtraIdle

Next ==
  \/ PushSalesOrdersPressed
  \/ push_sales_orders_build
  \/ push_sales_orders_post
  \/ push_sales_orders_response
  \/ push_sales_orders_return
  \/ PushPurchaseOrdersPressed
  \/ push_purchase_orders_build
  \/ push_purchase_orders_post
  \/ push_purchase_orders_response
  \/ push_purchase_orders_return
  \/ CreateSalesOrdersPressed
  \/ push_sales_orders_to_cin7_build
  \/ push_sales_orders_to_cin7_post
  \/ push_sales_orders_to_cin7_response
  \/ push_sales_orders_to_cin7_return
  \/ CreatePurchaseOrdersPressed
  \/ purchase_orders_ui_build
  \/ purchase_orders_ui_post
  \/ purchase_orders_ui_response
  \/ purchase_orders_ui_done

Spec == Init /\ [][Next]_vars

\* the statements of the push loops: the interpreter runs them one after the
\* other, and a blocking requests.post is taken to return or raise
PushStep ==
  \/ push_sales_orders_build
  \/ push_sales_orders_post
  \/ push_sales_orders_response
  \/ push_sales_orders_return
  \/ push_purchase_orders_build
  \/ push_purchase_orders_post
  \/ push_purchase_orders_response
  \/ push_purchase_orders_return
  \/ push_sales_orders_to_cin7_build
  \/ push_sales_orders_to_cin7_post
  \/ push_sales_orders_to_cin7_response
  \/ push_sales_orders_to_cin7_return
  \/ purchase_orders_ui_build
  \/ purchase_orders_ui_post
  \/ purchase_orders_ui_response
  \/ purchase_orders_ui_done

\* a started push keeps stepping; pressing a button is left to the user
FairSpec == Spec /\ WF_vars(PushStep)

\* ------------------------------------------------------------------------
\* Properties of the pushes
\* ------------------------------------------------------------------------
\* the requests sent under a reference
PostsOf(ref) == {n \in DOMAIN posts : posts[n].payload.reference = ref}

\* what the builder of the running app.py push gives for a group
AppBuild(g) ==
  IF kind = "SO" THEN build_sales_payload(g.ref, g.rows)
  ELSE build_po_payload(g.ref, g.rows)

\* group n of the loop has been taken up
Attempted(n) == n < gi \/ (n = gi /\ pc \in {"built", "sent", "crashed"})

Terminal == {"Succeeded", "Failed", "BuildFailed"}

\* C1: in app.py's push_sales_orders and push_purchase_orders a build that
\* raises, a POST that raises and a POST answered with a failure are recorded
\* against their own group only: the push never ends in an exception, and when
\* it returns every group has its own result, a group whose build raised has
\* that exception as its result and no request, and every other group was
\* built and POSTed once with its own payload, whatever its siblings did.
C1_FailureIsolation ==
  prog = "app" =>
    /\ pc # "crashed"
    /\ pc = "done" =>
         /\ Len(results) = Len(groups)
         /\ \A n \in DOMAIN groups :
              LET ref == groups[n].ref
                  b == AppBuild(groups[n])
              IN /\ results[n].ref = ref
                 /\ IF b.exc # ""
                    THEN /\ results[n] = Excepted(ref, b.exc)
                         /\ PostsOf(ref) = {}
                    ELSE /\ Cardinality(PostsOf(ref)) = 1
                         /\ \A q \in PostsOf(ref) : posts[q].payload = b.payload
                         /\ \/ results[n] = Excepted(ref, "RequestException")
                            \/ \E o \in Statuses : results[n] = Answered(ref, o)

\* push_purchase_orders returned: the first group's build raised (no supplier
\* matched), the second group was POSTed and succeeded
C1_Witness ==
  /\ prog = "app"
  /\ kind = "PO"
  /\ pc = "done"
  /\ Len(groups) = 2
  /\ gstate[groups[1].ref] = "BuildFailed"
  /\ results[1].Error = "Supplier match failed"
  /\ gstate[groups[2].ref] = "Succeeded"

\* C2: in potest.py an exception raised while a group's payload is built or
\* POSTed is caught for that group and never ends the batch: neither push of
\* potest.py is left by an exception, and a push that ends has one result per
\* group.
C2_PotestNeverCrashes ==
  prog = "potest" =>
    /\ pc # "crashed"
    /\ pc = "done" => Len(results) = Len(groups)

\* the transitions of a group's state
GroupSteps ==
  {<<"Pending", "Built">>, <<"Pending", "BuildFailed">>, <<"Built", "Sent">>,
   <<"Sent", "Succeeded">>, <<"Sent", "Failed">>}

\* C3: a push of app.py over any table terminates; once it has returned every
\* group is in exactly one terminal state (Succeeded, Failed or BuildFailed),
\* the states of a group only follow Pending -> Built -> Sent ->
\* Succeeded | Failed or Pending -> BuildFailed, and the results list holds
\* one result per group, in the groups' order, none twice.
C3_EveryGroupTerminal ==
  /\ (prog = "app" /\ pc = "loop") ~> (pc = "done")
  /\ [](prog = "app" /\ pc = "done" =>
          /\ \A r \in DOMAIN gstate : gstate[r] \in Terminal
          /\ Len(results) = Len(groups)
          /\ \A n \in DOMAIN groups :
               /\ results[n].ref = groups[n].ref
               /\ results[n].Success <=> gstate[groups[n].ref] = "Succeeded")
  /\ [][prog = "app" /\ DOMAIN gstate = DOMAIN gstate' =>
          \A r \in DOMAIN gstate :
            gstate'[r] = gstate[r] \/ <<gstate[r], gstate'[r]>> \in GroupSteps]_vars

\* push_sales_orders returned with one group BuildFailed and one Failed
C3_Witness ==
  /\ prog = "app"
  /\ kind = "SO"
  /\ pc = "done"
  /\ Len(groups) = 2
  /\ gstate[groups[1].ref] = "BuildFailed"
  /\ gstate[groups[2].ref] = "Failed"

\* C4: within one push a group is POSTed at most once, whatever the answer
\* was, and a group whose build raised is never POSTed.
C4_AtMostOncePosted ==
  \A r \in DOMAIN gstate :
    /\ Cardinality(PostsOf(r)) <= 1
    /\ gstate[r] = "BuildFailed" => PostsOf(r) = {}
    /\ gstate[r] \in {"Pending", "Built"} => PostsOf(r) = {}

\* a push returned after a POST that failed and a build that raised
C4_Witness ==
  /\ pc = "done"
  /\ Len(posts) = 1
  /\ \E r \in DOMAIN gstate : gstate[r] = "Failed" /\ Cardinality(PostsOf(r)) = 1
  /\ \E r \in DOMAIN gstate : gstate[r] = "BuildFailed"

\* the member id the specification asks for: the resolved id when it is there
\* and not zero, else the default customer of the branch
ExpectedMember(r) ==
  IF r.member \notin {NoId, NaNId, "0"} THEN r.member
  ELSE IF r.branch = "Hamilton" THEN branch_Hamilton_default_member
  ELSE branch_Avondale_default_member

\* C5: every Sales-Order group that is taken up gets a payload, and its
\* memberId is the resolved contact id or, when that is None, NaN or 0, the
\* default customer of the group's branch.
C5_MemberIdNeverNull ==
  kind = "SO" =>
    \A n \in DOMAIN groups :
      Attempted(n) =>
        /\ gstate[groups[n].ref] # "BuildFailed"
        /\ ~(n = gi /\ pc = "crashed")
        /\ \A q \in PostsOf(groups[n].ref) :
             posts[q].payload.memberId = ExpectedMember(groups[n].rows[1])

\* the best SequenceMatcher ratio of each supplier name of the tables against
\* the Cin7 suppliers, as a fraction
BestScore ==
  [name \in AppSuppliers |->
     BestMatch(clean_supplier_name(name), Len(suppliers_df)).score]

\* C6: a Purchase-Order group of app.py whose supplier's best match scores
\* below 0.40 is not assembled: its build raises, its result is a failure with
\* the error message, and no request is sent for it, under any supplier.
C6_BelowThresholdNotPosted ==
  prog = "app" /\ kind = "PO" =>
    \A n \in DOMAIN groups :
      LET supplier == groups[n].rows[1].supplier
          score == BestScore[supplier]
      IN supplier # <<>> /\ 5 * score[1] < 2 * score[2] /\ n < gi =>
           /\ gstate[groups[n].ref] = "BuildFailed"
           /\ results[n].Success = FALSE
           /\ results[n].Error # ""
           /\ PostsOf(groups[n].ref) = {}

\* the push went past a group whose supplier scored 2/7 against its closest
\* Cin7 supplier
C6_Witness ==
  /\ prog = "app"
  /\ kind = "PO"
  /\ gi > 1
  /\ groups[1].rows[1].supplier = <<"A", "Q", "Q", "Q">>
  /\ BestScore[<<"A", "Q", "Q", "Q">>] = <<2, 7>>
  /\ gstate[groups[1].ref] = "BuildFailed"

\* C7: every Purchase-Order request carries a supplierId, also for a group
\* whose supplier cell is blank or whose supplier has no Cin7 record.
C7_SupplierIdNeverNull ==
  \A q \in DOMAIN posts :
    posts[q].kind = "PO" => posts[q].payload.supplierId # NoId

\* the codes of the table that the catalog does not hold
missingCodes(t) == {RowCode(t[n]) : n \in DOMAIN t} \ products_Code

\* C8: when a line's code, after the merge and the override pass, is not in
\* the catalog, the batch is halted: no Sales Order and no Purchase Order is
\* POSTed.
C8_MissingCodesHaltBatch ==
  prog = "app" /\ pc # "page" /\ missingCodes(df) # {} => posts = <<>>

\* ------------------------------------------------------------------------
\* Properties of the line items
\* ------------------------------------------------------------------------
\* the group a request was sent for
GroupOf(q) == CHOOSE n \in DOMAIN groups : groups[n].ref = posts[q].payload.reference

\* the number of line items a row of app.py's table is to give
ItemCount(r) ==
  IF Cin7Boms(RowCode(r)) # <<>> THEN Len(Cin7Boms(RowCode(r))) ELSE 1

\* the number of line items the rows before row n are to give
RECURSIVE Offset(_, _)
Offset(rows, n) == IF n = 1 THEN 0 ELSE Offset(rows, n - 1) + ItemCount(rows[n - 1])

\* C11: a line whose code has a BOM gives exactly one line item per component,
\* with quantity = the component's quantity per parent x the ordered quantity
\* and unit price = the component's own unit cost: in app.py the items of the
\* line in the payload are exactly those, in potest.py every item of an
\* expanded line is one component with that quantity and that cost.
C11_BomExplosion ==
  \A q \in DOMAIN posts :
    posts[q].kind = "PO" =>
      LET rows == groups[GroupOf(q)].rows
          items == posts[q].payload.lineItems
      IN IF prog = "app"
         THEN /\ Len(items) = Offset(rows, Len(rows) + 1)
              /\ \A n \in DOMAIN rows :
                   LET bom == Cin7Boms(RowCode(rows[n]))
                   IN bom # <<>> =>
                        \A c \in DOMAIN bom :
                          items[Offset(rows, n) + c] =
                            [code |-> bom[c].code,
                             qty |-> bom[c].quantity * rows[n].qty,
                             unitPrice |-> bom[c].unitPrice]
         ELSE /\ Len(items) = Len(rows)
              /\ \A n \in DOMAIN rows :
                   LET bom == Cin7Boms(rows[n].override)
                   IN bom # <<>> =>
                        \E c \in DOMAIN bom, d \in DOMAIN df :
                          /\ df[d].item = rows[n].override
                          /\ df[d].base = rows[n].base
                          /\ df[d].branch = rows[n].branch
                          /\ items[n] = [code |-> bom[c].code,
                                         qty |-> bom[c].quantity * df[d].qty,
                                         unitPrice |-> bom[c].unitPrice]

\* C12: a line of app.py whose code has no BOM gives the Purchase-Order
\* payload exactly one line item: the line's code, the ordered quantity and
\* the line's unit cost.
C12_LeafLine ==
  \A q \in DOMAIN posts :
    prog = "app" /\ posts[q].kind = "PO" =>
      LET rows == groups[GroupOf(q)].rows
          items == posts[q].payload.lineItems
      IN /\ Len(items) = Offset(rows, Len(rows) + 1)
         /\ \A n \in DOMAIN rows :
              Cin7Boms(RowCode(rows[n])) = <<>> =>
                items[Offset(rows, n) + 1] =
                  [code |-> RowCode(rows[n]), qty |-> rows[n].qty,
                   unitPrice |-> rows[n].cost]

\* a Purchase Order of app.py was POSTed with the one line AB-12, 3, 10
C12_Witness ==
  /\ prog = "app"
  /\ \E q \in DOMAIN posts :
       /\ posts[q].kind = "PO"
       /\ posts[q].payload.lineItems = <<[code |-> AB12, qty |-> 3, unitPrice |-> "10"]>>

\* ------------------------------------------------------------------------
\* Properties of the Purchase-Order groups
\* ------------------------------------------------------------------------
\* C13: every Purchase Order of app.py that is POSTed holds the lines of one
\* supplier name only, and its supplierId is the id resolved for the supplier
\* of each of its lines; two suppliers of one order file are never one
\* Purchase Order under the first line's supplier.
C13_OneSupplierPerPurchaseOrder ==
  \A q \in DOMAIN posts :
    prog = "app" /\ posts[q].kind = "PO" =>
      LET rows == groups[GroupOf(q)].rows
      IN \A n \in DOMAIN rows :
           /\ rows[n].supplier = rows[1].supplier
           /\ posts[q].payload.supplierId = SupplierDetails[rows[n].supplier].id

\* C14: a Sales-Order or Purchase-Order group of app.py with a line whose
\* quantity is 0 or less is not POSTed: once the push is past it, it is
\* BuildFailed and no request carries its reference.
C14_NoQuantityNoPost ==
  prog = "app" =>
    \A n \in DOMAIN groups :
      (n < gi /\ \E m \in DOMAIN groups[n].rows : groups[n].rows[m].qty <= 0) =>
        /\ gstate[groups[n].ref] = "BuildFailed"
        /\ PostsOf(groups[n].ref) = {}

\* ------------------------------------------------------------------------
\* Properties of the results
\* ------------------------------------------------------------------------
\* the statuses of the model that are 2xx
Status2xx == {"200", "201"}

\* C15: the result of a group whose POST was answered has success = true when
\* the status is 2xx and success = false when it is not, the result of a group
\* whose POST raised has success = false, and each keeps the response body or
\* the error message.
C15_SuccessIffStatus2xx ==
  \A n \in DOMAIN results :
    /\ results[n].Response \in Status2xx => results[n].Success
    /\ results[n].Response \in Statuses \ Status2xx => ~results[n].Success
    /\ results[n].Error # "" => ~results[n].Success
    /\ results[n].Response # "" \/ results[n].Error # ""


\* ------------------------------------------------------------------------
\* Functions called on their own
\* ------------------------------------------------------------------------
\* the characters a supplier name is drawn from: letters of the suppliers
\* Cin7 holds, a letter of none, a digit, the ampersand and the blank
SupplierNameChars == {"A", "c", "x", "q", "2", "&", " "}

SupplierNames == TextsUpTo(SupplierNameChars, MaxLen)

\* details = get_supplier_details(supplier)
get_supplier_details_returns ==
  /\ call = "get_supplier_details"
  /\ ~returned
  /\ ret' = get_supplier_details(arg)
  /\ returned' = TRUE
  /\ UNCHANGED <<call, arg>>
  /\ UNCHANGED <<nzVars, pushVars, sbVars, extraVars>>

\* ---- get_contact_data
\* re.sub(r"\s+", " ", s): every run of whitespace becomes one blank
RECURSIVE collapse(_)
collapse(s) ==
  IF s = <<>> THEN <<>>
  ELSE IF Head(s) \in Whitespace THEN <<" ">> \o collapse(lstrip(Tail(s)))
  ELSE <<Head(s)>> \o collapse(Tail(s))

\* get_contact_data.clean_text
contact_clean_text(x) ==
  IF x = <<>> \/ isna(x) THEN <<>> ELSE collapse(strip(upper(x)))

\* get_contact_data.extract_code: the part after the last "-", stripped
extract_code(x) ==
  IF x = <<>> \/ isna(x) THEN <<>>
  ELSE LET dashes == {i \in DOMAIN x : x[i] = "-"}
           last == IF dashes = {} THEN 0
                   ELSE CHOOSE i \in dashes : \A j \in dashes : j <= i
       IN upper(strip(SubSeq(x, last + 1, Len(x))))

\* the customer contacts Cin7 holds, in the order it returns them
Cin7Customers ==
  << [id |-> "7", company |-> <<"A", "B">>, accountNumber |-> <<"1">>,
      firstName |-> "Job-7", salesPersonId |-> "3"],
     [id |-> "8", company |-> <<"B", "-", "1">>, accountNumber |-> <<"B">>,
      firstName |-> "Job-8", salesPersonId |-> NoId],
     [id |-> "9", company |-> <<"A">>, accountNumber |-> <<"1">>,
      firstName |-> "Job-9", salesPersonId |-> "3"] >>

\* what a GET can end in: an answer 200 with the list of the matching
\* contacts, an answer that is not 200 (an error object as its body), an
\* answer 200 whose body is not JSON, and an exception raised by requests.get
Answers == {"200", "500", "malformed", "exception"}

\* the body of a GET v1/Contacts?where=<field>='<value>' answered 200
ContactsWhere(field, value) ==
  SelectSeq(Cin7Customers, LAMBDA c : c[field] = value)

EmptyResolution == [projectName |-> "", salesPersonId |-> NoId, memberId |-> NoId]

Resolution(c) ==
  [projectName |-> c.firstName, salesPersonId |-> c.salesPersonId, memberId |-> c.id]

\* app.py: [exc |-> "" or the exception, value |-> the dict returned]
get_contact_data(company_name, answers) ==
  IF company_name = <<>> \/ isna(company_name)
  THEN [exc |-> "", value |-> EmptyResolution]
  ELSE LET cleaned == contact_clean_text(company_name)
           \* cin7_get: requests.get outside any try; None unless 200 and JSON
           res == IF answers[1] = "200" THEN ContactsWhere("company", cleaned)
                  ELSE <<>>
       IN IF answers[1] = "exception"
          THEN [exc |-> "ConnectionError", value |-> EmptyResolution]
          ELSE IF res # <<>> THEN [exc |-> "", value |-> Resolution(res[1])]
          ELSE [exc |-> "", value |-> EmptyResolution]

\* potest.py: both lookups inside try/except: pass
potest_get_contact_data(company_name, answers) ==
  IF company_name = <<>> \/ isna(company_name)
  THEN [exc |-> "", value |-> EmptyResolution]
  ELSE LET cleaned_name == contact_clean_text(company_name)
           code == extract_code(company_name)
           \* isinstance(data, list) and data
           first == IF answers[1] = "200" THEN ContactsWhere("company", cleaned_name)
                    ELSE <<>>
           second == IF answers[2] = "200" THEN ContactsWhere("accountNumber", code)
                     ELSE <<>>
       IN IF first # <<>> THEN [exc |-> "", value |-> Resolution(first[1])]
          ELSE IF second # <<>> THEN [exc |-> "", value |-> Resolution(second[1])]
          ELSE [exc |-> "", value |-> EmptyResolution]

\* the account cells of the PM7 file: AccountNumber, dropna().unique()
AccountChars == {"A", "b", "1", "-", " "}

Accounts == TextsUpTo(AccountChars, MaxLen)

\* d = get_contact_data(acc)
get_contact_data_returns ==
  /\ call = "get_contact_data"
  /\ ~returned
  /\ ret' = IF arg.prog = "app"
            THEN get_contact_data(arg.company_name, arg.answers)
            ELSE potest_get_contact_data(arg.company_name, arg.answers)
  /\ returned' = TRUE
  /\ UNCHANGED <<call, arg>>
  /\ UNCHANGED <<nzVars, pushVars, sbVars, extraVars>>

\* ---- the branch of an order line
\* str.lower() of one character
LowerChar(c) ==
  CASE c = "B" -> "b"
    [] c = "C" -> "c"
    [] c = "M" -> "m"
    [] OTHER -> c

lower(s) == [i \in DOMAIN s |-> LowerChar(s[i])]

CharlotteMeyer ==
  <<"C", "h", "a", "r", "l", "o", "t", "t", "e", " ", "M", "e", "y", "e", "r">>

\* Sales Rep cells: users_map.get(salesPersonId, "") of the resolved contact,
\* "" when the contact or its sales person is not resolved
SalesReps ==
  {<<>>, CharlotteMeyer, lower(CharlotteMeyer), <<" ">> \o CharlotteMeyer \o <<" ">>,
   Append(CharlotteMeyer, "s"), <<"B", "o", "b">>}

\* potest.py: merged["BranchName"]
BranchName(r) ==
  IF lower(strip(r)) = lower(CharlotteMeyer) THEN "Hamilton" ELSE "Avondale"

\* app.py: the "Branch" of a buffer row
BufferBranch(r) == "Avondale"

\* the branch given to a line whose resolved sales rep is arg.sales_rep
Branch_returns ==
  /\ call = "Branch"
  /\ ~returned
  /\ ret' = IF arg.prog = "app" THEN BufferBranch(arg.sales_rep)
            ELSE BranchName(arg.sales_rep)
  /\ returned' = TRUE
  /\ UNCHANGED <<call, arg>>
  /\ UNCHANGED <<nzVars, pushVars, sbVars, extraVars>>

\* ---- the buffer rows of one uploaded file
\* users_map: the active Cin7 users, id -> "firstName lastName"
users_map(id) == IF id = "3" THEN CharlotteMeyer ELSE <<>>

\* the AccountNumber cells of a PM7 file: the company of contact 7, that of
\* contact 9, and an account Cin7 has no company for
FileAccounts == {<<"A", "b">>, <<"A">>, <<"1">>}

\* the header cells of the buffer row made from a line with account acc
BufferRow(order_ref_base, acc) ==
  LET d == get_contact_data(acc, <<"200", "200">>).value
  IN [SO_OrderRef |-> order_ref_base,
      Company |-> acc,
      ProjectName |-> d.projectName,
      SalesRep |-> IF Truthy(d.salesPersonId) THEN users_map(d.salesPersonId) ELSE <<>>,
      MemberId |-> d.memberId,
      Branch |-> BufferBranch(<<>>)]

\* one pass of "for file in pm_files": the rows appended to buffer
buffer_rows_returns ==
  /\ call = "buffer"
  /\ ~returned
  /\ ret' = [n \in DOMAIN arg.AccountNumber |->
               BufferRow(arg.order_ref_base, arg.AccountNumber[n])]
  /\ returned' = TRUE
  /\ UNCHANGED <<call, arg>>
  /\ UNCHANGED <<nzVars, pushVars, sbVars, extraVars>>

\* ---- potest.py: the payloads purchase_orders_ui builds
\* po_payloads of the lines the user has added to the Purchase Orders
po_payloads_returns ==
  /\ call = "po_payloads"
  /\ ~returned
  /\ ret' = po_payloads(arg)
  /\ returned' = TRUE
  /\ UNCHANGED <<call, arg>>
  /\ UNCHANGED <<nzVars, pushVars, sbVars, extraVars>>

\* ---- potest.py: the push gate of sales_orders_ui
\* an uploaded file, as far as the gate goes: whether it has codes that are
\* not in the catalog, and whether the user has ticked the checkbox shown
\* for it
UploadedFiles == [missing : BOOLEAN, ticked : BOOLEAN]

\* the loop "for f in pm_files" over the first n files: the value of proceed
\* after it, and the checkboxes created; a second checkbox with the same
\* label and no key is a DuplicateWidgetID
RECURSIVE FilesLoop(_, _)
FilesLoop(files, n) ==
  IF n = 0 THEN [exc |-> "", proceed |-> TRUE, boxes |-> 0]
  ELSE LET before == FilesLoop(files, n - 1)
       IN IF before.exc # "" THEN before
          ELSE IF files[n].missing
               THEN IF before.boxes > 0
                    THEN [before EXCEPT !.exc = "DuplicateWidgetID"]
                    ELSE [exc |-> "", proceed |-> files[n].ticked, boxes |-> 1]
               ELSE [before EXCEPT !.proceed = TRUE]

\* a script run with "Create Sales Orders in Cin7" pressed: whether
\* push_sales_orders_to_cin7(df) is called
sales_orders_ui_returns ==
  /\ call = "sales_orders_ui"
  /\ ~returned
  /\ ret' = LET loop == FilesLoop(arg, Len(arg))
            IN [exc |-> loop.exc, pushed |-> loop.exc = "" /\ loop.proceed]
  /\ returned' = TRUE
  /\ UNCHANGED <<call, arg>>
  /\ UNCHANGED <<nzVars, pushVars, sbVars, extraVars>>

\* ---- the supplier keys
\* supplier names longer than MaxLen: the word LIMITED whole, and broken by
\* a blank, a hyphen and an ampersand
LongSupplierNames ==
  {<<"L", "i", "m", "i", "t", "e", "d">>,
   <<"L", "I", "M", "I", " ", "T", "E", "D">>,
   <<"L", "I", "M", "-", "I", "T", "E", "D">>,
   <<"L", "I", "M", "I", "T", "E", "&">>}

\* the key of a supplier cell (clean_supplier_name) and of a Cin7 company
\* (load_all_suppliers.clean_text)
clean_supplier_name_returns ==
  /\ call = "clean_supplier_name"
  /\ ~returned
  /\ ret' = [clean_supplier_name |-> clean_supplier_name(arg),
             clean_text |-> clean_text(arg)]
  /\ returned' = TRUE
  /\ UNCHANGED <<call, arg>>
  /\ UNCHANGED <<nzVars, pushVars, sbVars, extraVars>>

\* a buffer row's PO reference (PO_ref = f"PO-{order_ref_base}{abbr}") and the
\* match build_po_payload makes for the row's supplier
PO_ref_returns ==
  /\ call = "PO_ref"
  /\ ~returned
  /\ ret' = [PO_ref |-> PO_ref(arg.order_ref_base, arg.supplier),
             sup |-> get_supplier_details(arg.supplier)]
  /\ returned' = TRUE
  /\ UNCHANGED <<call, arg>>
  /\ UNCHANGED <<nzVars, pushVars, sbVars, extraVars>>

CallInit ==
  /\ \/ call = "get_supplier_details" /\ arg \in SupplierNames
     \/ /\ call = "PO_ref"
        /\ arg \in [order_ref_base : Bases, supplier : SupplierNames]
     \/ /\ call = "buffer"
        /\ arg \in [order_ref_base : Bases,
                     AccountNumber : UNION {[1..n -> FileAccounts] : n \in 1..MaxRows}]
     \/ /\ call = "po_payloads"
        /\ arg \in {expanded_df(t, Len(t)) : t \in Tables(PotestPoRows)}
     \/ /\ call = "sales_orders_ui"
        /\ arg \in UNION {[1..n -> UploadedFiles] : n \in 1..MaxRows}
     \/ /\ call = "clean_supplier_name"
        /\ arg \in SupplierNames \cup LongSupplierNames
     \/ /\ call = "Branch"
        /\ arg \in [prog : {"app", "potest"}, sales_rep : SalesReps]
     \/ /\ call = "get_contact_data"
        /\ arg \in [prog : {"app", "potest"}, company_name : Accounts,
                     answers : [1..2 -> Answers]]
  /\ ret = None
  /\ returned = FALSE

CallNext ==
  \/ get_supplier_details_returns
  \/ PO_ref_returns
  \/ get_contact_data_returns
  \/ Branch_returns
  \/ clean_supplier_name_returns
  \/ sales_orders_ui_returns
  \/ po_payloads_returns
  \/ buffer_rows_returns

InitCalls == CallInit /\ NzIdle /\ PushIdle /\ SbIdle /\ ExtraIdle

SpecCalls == InitCalls /\ [][CallNext]_vars

\* the score of a name against the n-th record of suppliers_df
ScoreOf(name, n) == ratio(clean_supplier_name(name), suppliers_df[n].company_clean)

\* C16: get_supplier_details accepts a supplier only when the best score
\* over the whole table is at least the threshold, and then returns the id of
\* the first record in table order that has the best score; in every other
\* case it raises.
C16_BestMatchOrRaise ==
  (call = "get_supplier_details" /\ returned /\ arg # <<>>) =>
    IF ret.exc = ""
    THEN \E n \in DOMAIN suppliers_df :
           /\ ret.id = suppliers_df[n].id
           /\ ScoreGe(ScoreOf(arg, n), AcceptThreshold)
           /\ \A m \in DOMAIN suppliers_df : ScoreGe(ScoreOf(arg, n), ScoreOf(arg, m))
           /\ \A m \in 1..(n - 1) : ScoreGt(ScoreOf(arg, n), ScoreOf(arg, m))
    ELSE \A n \in DOMAIN suppliers_df : ~ScoreGe(ScoreOf(arg, n), AcceptThreshold)

\* "Ax" scores 0.8 against both Axy and Axz, and the first of them is taken
C16_Witness ==
  /\ call = "get_supplier_details"
  /\ returned
  /\ arg = <<"A", "x">>
  /\ ScoreOf(arg, 2) = ScoreOf(arg, 4)
  /\ ret.exc = ""
  /\ ret.id = "12"

\* C17: the abbreviation at the end of a PO reference has exactly four
\* characters, none of them a digit; they are the first four letters of the
\* normalized supplier name, followed by padding when the name has fewer; and
\* it is the abbreviation the supplier match returns.
C17_AbbreviationFourLetters ==
  (call = "PO_ref" /\ returned) =>
    LET abbr == ret.PO_ref.tail
        letters == KeepOnly(clean_supplier_name(arg.supplier), Letters)
    IN /\ Len(abbr) = 4
       /\ \A i \in DOMAIN abbr : abbr[i] \notin Digits
       /\ \A i \in DOMAIN abbr : i <= Len(letters) => abbr[i] = letters[i]
       /\ ret.sup.exc = "" => ret.sup.abbr = abbr

\* C18: every character of a key returned by clean_code is one of A-Z, 0-9,
\* "/" and "-" (no backslash, no whitespace, no lower-case letter), and a
\* missing cell or a cell that is not a string gives the empty key.
C18_OnlyAllowListed ==
  nz_once # None =>
    /\ \A i \in DOMAIN nz_once : nz_once[i] \in Letters \cup Digits \cup {"/", "-"}
    /\ (isna(nz_x) \/ IsNumber(nz_x)) => nz_once = <<>>

\* the records a lookup yields: those Cin7 holds when the GET is answered,
\* none when it fails
Lookup(answer, field, value) ==
  IF answer = "200" THEN ContactsWhere(field, value) ELSE <<>>

\* C19: get_contact_data never raises; it returns the first contact whose
\* company is the cleaned account token, else the first contact whose account
\* number is the token's part after its last "-", else the empty resolution;
\* a lookup whose GET fails (not 200, no JSON, exception) yields no contact.
C19_CompanyThenAccountNumber ==
  (call = "get_contact_data" /\ returned) =>
    LET byCompany == Lookup(arg.answers[1], "company",
                            contact_clean_text(arg.company_name))
        byAccount == Lookup(arg.answers[2], "accountNumber",
                            extract_code(arg.company_name))
    IN /\ ret.exc = ""
       /\ ret.value = IF arg.company_name = <<>> THEN EmptyResolution
                      ELSE IF byCompany # <<>> THEN Resolution(byCompany[1])
                      ELSE IF byAccount # <<>> THEN Resolution(byAccount[1])
                      ELSE EmptyResolution

\* the sales reps of the Hamilton branch, as the name table writes them
HamiltonReps == {<<"c", "h", "a", "r", "l", "o", "t", "t", "e", " ", "m", "e", "y", "e", "r">>}

\* C20: the branch of a line is Hamilton when its resolved sales rep is one
\* of the Hamilton branch (whatever the case and the surrounding blanks of
\* the name), and Avondale for every other and for an unresolved sales rep.
C20_BranchFromSalesRep ==
  (call = "Branch" /\ returned) =>
    ret = IF lower(strip(arg.sales_rep)) \in HamiltonReps THEN "Hamilton"
          ELSE "Avondale"

\* ------------------------------------------------------------------------
\* The BOM lookups of one batch (app.py: get_bom inside build_po_payload)
\* ------------------------------------------------------------------------
\* the explosions one batch makes
MaxExplosions == 3

BomCodes == {KIT1, AB12}
BomQtys == {1, 3}

\* the BomMasters of Cin7 after another user has edited the kit
Cin7BomsEdited(code) ==
  IF code = KIT1
  THEN << [code |-> P1, quantity |-> 3, unitPrice |-> "4"],
          [code |-> P2, quantity |-> 1, unitPrice |-> "6"] >>
  ELSE <<>>

\* get_bom(code): cin7_get gives None for an answer that is not 200, and
\* get_bom then returns []
get_bom_answered(answer, edited, code) ==
  IF answer # "200" THEN <<>>
  ELSE IF edited THEN Cin7BomsEdited(code)
  ELSE Cin7Boms(code)

\* one pass of the loop over grp.iterrows(): bom_components = get_bom(...)
\* and the line items appended for the row
build_po_payload_row ==
  /\ bom_gets # <<>>
  /\ Len(bom_log) < MaxExplosions
  /\ \E code \in BomCodes, qty \in BomQtys, answer \in {"200", "500"} :
       /\ bom_gets' = [bom_gets EXCEPT ![code] = @ + 1]
       /\ bom_log' = Append(bom_log,
            [code |-> code, qty |-> qty,
             items |-> LineItemsOf(get_bom_answered(answer, bom_edited, code),
                                   code, qty, MergedPrice(code))])
  /\ UNCHANGED bom_edited
  /\ UNCHANGED <<nzVars, pushVars, sbVars, callVars, scVars, rfVars>>

\* Cin7 is shared: the kit's BOM is edited there while the batch runs
Cin7BomEdited ==
  /\ bom_gets # <<>>
  /\ ~bom_edited
  /\ bom_edited' = TRUE
  /\ UNCHANGED <<bom_gets, bom_log>>
  /\ UNCHANGED <<nzVars, pushVars, sbVars, callVars, scVars, rfVars>>

BomInit ==
  /\ bom_edited = FALSE
  /\ bom_gets = [code \in BomCodes |-> 0]
  /\ bom_log = <<>>

BomNext == build_po_payload_row \/ Cin7BomEdited

InitBom ==
  BomInit /\ NzIdle /\ PushIdle /\ SbIdle /\ CallIdle /\ ScIdle /\ RfIdle

SpecBom == InitBom /\ [][BomNext]_vars

\* C21: in one batch Cin7 is asked for the BOM of a code at most once, and
\* two explosions of the same code and quantity give the same line items.
C21_BomQueriedOnce ==
  bom_gets # <<>> =>
    /\ \A code \in BomCodes : bom_gets[code] <= 1
    /\ \A i, j \in DOMAIN bom_log :
         (bom_log[i].code = bom_log[j].code /\ bom_log[i].qty = bom_log[j].qty)
           => bom_log[i].items = bom_log[j].items

\* C22: the buffer rows that share one Sales-Order reference carry the same
\* company, member id, sales rep, project name and branch, whatever account
\* tokens the lines of the file hold.
C22_GroupSharesHeader ==
  (call = "buffer" /\ returned) =>
    \A i, j \in DOMAIN ret :
      ret[i].SO_OrderRef = ret[j].SO_OrderRef =>
        /\ ret[i].Company = ret[j].Company
        /\ ret[i].MemberId = ret[j].MemberId
        /\ ret[i].SalesRep = ret[j].SalesRep
        /\ ret[i].ProjectName = ret[j].ProjectName
        /\ ret[i].Branch = ret[j].Branch

\* the line items of the selected lines of one supplier and branch
GroupLines(sel, supplier, branch) ==
  LET grp == SelectSeq(sel, LAMBDA r : r.supplier = supplier /\ r.branch = branch)
  IN [m \in DOMAIN grp |->
        [code |-> grp[m].item, qty |-> grp[m].qty, unitPrice |-> grp[m].cost]]

\* C23: po_payloads holds, for the supplier and branch of every selected
\* line, exactly one payload, and that payload has all the lines of that
\* supplier and branch.
C23_OnePayloadPerSupplierBranch ==
  (call = "po_payloads" /\ returned) =>
    \A m \in DOMAIN arg :
      LET mine == {n \in DOMAIN ret :
                     /\ ret[n].data.supplier = arg[m].supplier
                     /\ ret[n].data.branch = arg[m].branch}
      IN /\ Cardinality(mine) = 1
         /\ \A n \in mine :
              ret[n].data.lineItems = GroupLines(arg, arg[m].supplier, arg[m].branch)

\* C24: Sales Orders are pushed only when every uploaded file that has
\* missing codes was acknowledged, wherever the file stands among the files.
C24_EveryMissingFileAcknowledged ==
  (call = "sales_orders_ui" /\ returned /\ ret.pushed) =>
    \A n \in DOMAIN arg : arg[n].missing => arg[n].ticked

\* ------------------------------------------------------------------------
\* A run of app.py's script, top to bottom
\* ------------------------------------------------------------------------
\* the script runs the user starts in one session
MaxRuns == 3

\* the statements of the script in file order: the names each one reads
\* when it executes and the names it binds
Script ==
  << [kind |-> "def", needs |-> {},
      defines |-> {"build_sales_payload", "build_po_payload"}],
     [kind |-> "upload", needs |-> {}, defines |-> {"df"}],
     [kind |-> "table", needs |-> {"df"}, defines |-> {"so_edit"}],
     [kind |-> "push_so", needs |-> {"so_edit", "push_sales_orders"},
      defines |-> {}],
     [kind |-> "table", needs |-> {"df"}, defines |-> {"final_po"}],
     [kind |-> "push_po", needs |-> {"final_po", "push_purchase_orders"},
      defines |-> {}],
     [kind |-> "def", needs |-> {}, defines |-> {"push_sales_orders"}],
     [kind |-> "def", needs |-> {}, defines |-> {"push_purchase_orders"}] >>

\* a def, the "if pm_files:" block, or the statements that build a table
RunStatement ==
  /\ sc_end = "running"
  /\ sc_pc \in DOMAIN Script
  /\ Script[sc_pc].kind \in {"def", "upload", "table"}
  /\ LET st == Script[sc_pc]
     IN IF ~(st.needs \subseteq sc_defined)
        THEN /\ sc_end' = "NameError"
             /\ UNCHANGED <<sc_pc, sc_defined>>
        ELSE /\ sc_defined' = IF st.kind = "upload" /\ ~sc_files THEN sc_defined
                              ELSE sc_defined \cup st.defines
             /\ sc_pc' = sc_pc + 1
             /\ sc_end' = IF sc_pc = Len(Script) THEN "finished" ELSE "running"
  /\ UNCHANGED <<sc_run, sc_files, sc_button, sc_rendered, sc_groups, sc_results>>
  /\ UNCHANGED <<nzVars, pushVars, sbVars, callVars, bomVars, rfVars>>

\* if st.button("Push Sales Orders"): result = push_sales_orders(so_edit)
PushSalesOrdersHandler ==
  /\ sc_end = "running"
  /\ sc_pc \in DOMAIN Script
  /\ Script[sc_pc].kind = "push_so"
  /\ sc_rendered' = sc_rendered \cup {"push_so"}
  /\ IF sc_button # "push_so"
     THEN /\ sc_pc' = sc_pc + 1
          /\ UNCHANGED <<sc_results, sc_end>>
     ELSE IF Script[sc_pc].needs \subseteq sc_defined
     THEN /\ sc_results' = sc_groups
          /\ sc_pc' = sc_pc + 1
          /\ UNCHANGED sc_end
     ELSE /\ sc_end' = "NameError"
          /\ UNCHANGED <<sc_pc, sc_results>>
  /\ UNCHANGED <<sc_run, sc_defined, sc_files, sc_button, sc_groups>>
  /\ UNCHANGED <<nzVars, pushVars, sbVars, callVars, bomVars, rfVars>>

\* if st.button("Push Purchase Orders"): try: result =
\* push_purchase_orders(final_po); except Exception: st.error, st.stop()
PushPurchaseOrdersHandler ==
  /\ sc_end = "running"
  /\ sc_pc \in DOMAIN Script
  /\ Script[sc_pc].kind = "push_po"
  /\ sc_rendered' = sc_rendered \cup {"push_po"}
  /\ IF sc_button # "push_po"
     THEN /\ sc_pc' = sc_pc + 1
          /\ UNCHANGED <<sc_results, sc_end>>
     ELSE IF Script[sc_pc].needs \subseteq sc_defined
     THEN /\ sc_results' = sc_groups
          /\ sc_pc' = sc_pc + 1
          /\ UNCHANGED sc_end
     ELSE /\ sc_end' = "stopped"
          /\ UNCHANGED <<sc_pc, sc_results>>
  /\ UNCHANGED <<sc_run, sc_defined, sc_files, sc_button, sc_groups>>
  /\ UNCHANGED <<nzVars, pushVars, sbVars, callVars, bomVars, rfVars>>

\* the user uploads or removes files, edits a table or presses a button that
\* is on the page: Streamlit runs the script again in a new namespace
Rerun ==
  /\ sc_end # "running"
  /\ sc_run < MaxRuns
  /\ sc_run' = sc_run + 1
  /\ sc_pc' = 1
  /\ sc_defined' = {}
  /\ sc_rendered' = {}
  /\ sc_results' = -1
  /\ sc_end' = "running"
  /\ sc_files' \in BOOLEAN
  /\ sc_button' \in {""} \cup sc_rendered
  /\ sc_groups' \in 1..MaxRows
  /\ UNCHANGED <<nzVars, pushVars, sbVars, callVars, bomVars, rfVars>>

ScInit ==
  /\ sc_run = 1
  /\ sc_pc = 1
  /\ sc_defined = {}
  /\ sc_files \in BOOLEAN
  /\ sc_button = ""
  /\ sc_rendered = {}
  /\ sc_groups \in 1..MaxRows
  /\ sc_results = -1
  /\ sc_end = "running"

ScNext ==
  \/ RunStatement
  \/ PushSalesOrdersHandler
  \/ PushPurchaseOrdersHandler
  \/ Rerun

InitScript ==
  ScInit /\ NzIdle /\ PushIdle /\ SbIdle /\ CallIdle /\ BomIdle /\ RfIdle

SpecScript == InitScript /\ [][ScNext]_vars

\* C25: a run started by the press of a push button does not end in a
\* NameError or in the "PO Build Error" stop, and once it has passed the
\* button's handler the push has returned one result per group.
C25_PushDefinedWhenCalled ==
  sc_button \in {"push_so", "push_po"} =>
    /\ sc_end \notin {"NameError", "stopped"}
    /\ sc_end = "finished" => sc_results = sc_groups

\* C26: a supplier key is a fixed point of the normalization that made it:
\* clean_supplier_name(clean_supplier_name(x)) = clean_supplier_name(x), and
\* the same for load_all_suppliers.clean_text.
C26_SupplierKeyIdempotent ==
  (call = "clean_supplier_name" /\ returned) =>
    /\ clean_supplier_name(ret.clean_supplier_name) = ret.clean_supplier_name
    /\ clean_text(ret.clean_text) = ret.clean_text

\* ---------------------------------------------------------------------
\* cache_products.py: the product cache file and its metadata file
\* ---------------------------------------------------------------------

MaxRefreshes == 3
MaxPages == 2
MaxClock == 2

\* load_cached_products(max_age_hours=24); the clock counts hours in steps
\* of HoursPerTick
max_age_hours == 24
HoursPerTick == 13

NoFile == [exists |-> FALSE, call |-> 0, content |-> <<>>]

\* the statements after the loop, in the order the function executes them:
\* df.to_parquet(CACHE_FILE), then json.dump into META_FILE
WriteOrder_MetaFirst == <<"json.dump", "to_parquet">>

WriteOrder == <<"to_parquet", "json.dump">>

\* the rows of page number n of the products endpoint
PageRows(n) == << <<"p1", "p2", "p3", "p4">>[n] >>

\* what one GET of v1/Products?skip=..&top=500 can come back as: a JSON
\* list (empty past the last page), a status other than 200, a body that
\* is no JSON, or an exception of requests.get itself
Responses == {"rows", "non-200", "non-JSON", "ConnectionError"}

\* the statement that follows statement w of WriteOrder, "return" after the
\* last one
AfterWrite(w) ==
  IF w = WriteOrder[1] THEN WriteOrder[2] ELSE "return"

\* refresh_products_from_api is called: all_rows = [], skip = 0
refresh_products_from_api_called ==
  /\ rf_pc \in {"idle", "returned", "raised"}
  /\ rf_call < MaxRefreshes
  /\ rf_call' = rf_call + 1
  /\ \E n \in 0..MaxPages : rf_pages' = n
  /\ rf_all_rows' = <<>>
  /\ rf_skip' = 0
  /\ rf_before' = <<cache_file, meta_file>>
  /\ rf_pc' = "get"
  /\ rf_raised' = ""
  /\ UNCHANGED <<cache_file, meta_file, rf_clock, rf_loaded>>
  /\ UNCHANGED <<nzVars, pushVars, sbVars, callVars, bomVars, scVars>>

\* one pass of the while loop: the GET, the status check, r.json(), the
\* break on an empty page, all_rows.extend(data) and skip += take
refresh_page ==
  /\ rf_pc = "get"
  /\ \E r \in Responses :
       IF r = "ConnectionError"
       THEN /\ rf_pc' = "raised" /\ rf_raised' = "requests.get"
            /\ UNCHANGED <<rf_all_rows, rf_skip>>
       ELSE IF r = "non-200"
       THEN /\ rf_pc' = "raised" /\ rf_raised' = "status_code"
            /\ UNCHANGED <<rf_all_rows, rf_skip>>
       ELSE IF r = "non-JSON"
       THEN /\ rf_pc' = "raised" /\ rf_raised' = "r.json"
            /\ UNCHANGED <<rf_all_rows, rf_skip>>
       ELSE IF rf_skip >= rf_pages
       THEN /\ rf_pc' = WriteOrder[1] /\ rf_raised' = ""
            /\ UNCHANGED <<rf_all_rows, rf_skip>>
       ELSE /\ rf_all_rows' = rf_all_rows \o PageRows(rf_skip + 1)
            /\ rf_skip' = rf_skip + 1
            /\ UNCHANGED <<rf_pc, rf_raised>>
  /\ UNCHANGED <<rf_call, rf_pages, rf_before, cache_file, meta_file,
                 rf_clock, rf_loaded>>
  /\ UNCHANGED <<nzVars, pushVars, sbVars, callVars, bomVars, scVars>>

\* df = pd.DataFrame(all_rows); df.to_parquet(CACHE_FILE, index=False);
\* the write can fail (no parquet engine, no room on the disk) before the
\* file is replaced
refresh_to_parquet ==
  /\ rf_pc = "to_parquet"
  /\ \/ /\ cache_file' = [exists |-> TRUE, call |-> rf_call,
                          content |-> rf_all_rows]
        /\ rf_pc' = AfterWrite("to_parquet")
        /\ UNCHANGED rf_raised
     \/ /\ rf_pc' = "raised" /\ rf_raised' = "to_parquet"
        /\ UNCHANGED cache_file
  /\ UNCHANGED <<rf_call, rf_pages, rf_all_rows, rf_skip, rf_before,
                 meta_file, rf_clock, rf_loaded>>
  /\ UNCHANGED <<nzVars, pushVars, sbVars, callVars, bomVars, scVars>>

\* with open(META_FILE, "w") as f: json.dump({"updated": now}, f); the
\* open can fail and leave the file as it was
refresh_json_dump ==
  /\ rf_pc = "json.dump"
  /\ \/ /\ meta_file' = [exists |-> TRUE, call |-> rf_call,
                         content |-> <<rf_clock>>]
        /\ rf_pc' = AfterWrite("json.dump")
        /\ UNCHANGED rf_raised
     \/ /\ rf_pc' = "raised" /\ rf_raised' = "open"
        /\ UNCHANGED meta_file
  /\ UNCHANGED <<rf_call, rf_pages, rf_all_rows, rf_skip, rf_before,
                 cache_file, rf_clock, rf_loaded>>
  /\ UNCHANGED <<nzVars, pushVars, sbVars, callVars, bomVars, scVars>>

\* return df
refresh_return ==
  /\ rf_pc = "return"
  /\ rf_pc' = "returned"
  /\ UNCHANGED <<rf_call, rf_pages, rf_all_rows, rf_skip, rf_before,
                 rf_raised, cache_file, meta_file, rf_clock, rf_loaded>>
  /\ UNCHANGED <<nzVars, pushVars, sbVars, callVars, bomVars, scVars>>

\* load_cached_products(): None when a file is missing or the metadata is
\* older than max_age_hours, the cache's rows otherwise
load_cached_products ==
  IF ~cache_file.exists \/ ~meta_file.exists THEN None
  ELSE IF (rf_clock - meta_file.content[1]) * HoursPerTick > max_age_hours
  THEN None
  ELSE cache_file.content

\* load_cached_products is called between two refreshes
load_cached_products_called ==
  /\ rf_pc \in {"idle", "returned", "raised"}
  /\ rf_loaded # <<"df", load_cached_products>>
  /\ rf_loaded' = <<"df", load_cached_products>>
  /\ UNCHANGED <<rf_call, rf_pages, rf_all_rows, rf_skip, rf_before,
                 rf_raised, rf_pc, cache_file, meta_file, rf_clock>>
  /\ UNCHANGED <<nzVars, pushVars, sbVars, callVars, bomVars, scVars>>

\* time passes between two calls
HoursPass ==
  /\ rf_pc \in {"idle", "returned", "raised"}
  /\ rf_clock < MaxClock
  /\ rf_clock' = rf_clock + 1
  /\ UNCHANGED <<rf_call, rf_pages, rf_all_rows, rf_skip, rf_before,
                 rf_raised, rf_pc, cache_file, meta_file, rf_loaded>>
  /\ UNCHANGED <<nzVars, pushVars, sbVars, callVars, bomVars, scVars>>

\* before the first call neither file exists
CacheInit ==
  /\ rf_pc = "idle"
  /\ rf_call = 0
  /\ rf_pages = 0
  /\ rf_all_rows = <<>>
  /\ rf_skip = 0
  /\ rf_before = <<NoFile, NoFile>>
  /\ rf_raised = ""
  /\ cache_file = NoFile
  /\ meta_file = NoFile
  /\ rf_clock = 0
  /\ rf_loaded = <<>>

CacheNext ==
  \/ refresh_products_from_api_called
  \/ refresh_page
  \/ refresh_to_parquet
  \/ refresh_json_dump
  \/ refresh_return
  \/ load_cached_products_called
  \/ HoursPass

InitCache ==
  CacheInit /\ NzIdle /\ PushIdle /\ SbIdle /\ CallIdle /\ BomIdle /\ ScIdle

SpecCache == InitCache /\ [][CacheNext]_vars

\* the rows of a catalogue of n pages, first page first
RECURSIVE AllPages(_)
AllPages(n) == IF n = 0 THEN <<>> ELSE AllPages(n - 1) \o PageRows(n)

\* C27: while pages are fetched, and when a page comes back with a status
\* other than 200 or with a body that is no JSON and the function raises,
\* both files are exactly as they were when the call started; a cache file
\* that exists holds every page of the call that wrote it; and a metadata
\* file that exists was written by a call no later than the one whose rows
\* the cache file holds.
C27_CacheWrittenAfterEveryPage ==
  /\ rf_pc = "get" => <<cache_file, meta_file>> = rf_before
  /\ (rf_pc = "raised" /\ rf_raised \in {"requests.get", "status_code", "r.json"})
       => <<cache_file, meta_file>> = rf_before
  /\ cache_file.exists =>
       \E n \in 0..MaxPages : cache_file.content = AllPages(n)
  /\ (rf_pc \in {"to_parquet", "json.dump", "return"} /\ cache_file.call = rf_call)
       => cache_file.content = AllPages(rf_pages)
  /\ meta_file.exists =>
       /\ cache_file.exists
       /\ meta_file.call <= cache_file.call

\* a page after the first came back as no JSON, the call raised, and the
\* files written by an earlier call are still in place
C27_Witness ==
  /\ rf_pc = "raised"
  /\ rf_raised = "r.json"
  /\ Len(rf_all_rows) >= 1
  /\ cache_file.exists /\ meta_file.exists
  /\ cache_file.call < rf_call
  /\ meta_file.call = cache_file.call


=============================================================================
